---- MODULE Spec2Model ----
(***************************************************************************)
(* Avro-over-HTTP handshake machine of avrofastapi: the router's protocol  *)
(* state, its client-protocol compatibility cache, the avro/binary request *)
(* dispatcher and the client gateway.                                      *)
(*                                                                         *)
(* Abstractions.  An Avro schema is a small number (0 stands for "no body" *)
(* / the null response); the avro library's reader-writer compatibility    *)
(* check is the fixed relation Compatible.  A protocol JSON text is a      *)
(* sequence of tokens, four per message; md5 is a digest folded over the   *)
(* tokens.  A message id (route.unique_id) is a number.                    *)
(***************************************************************************)
EXTENDS Integers, Sequences, FiniteSets, TLC

VARIABLES
    routes,           \* APIRouter.routes: every route ever registered, in order
    avro_routes,      \* AvroRouter._avro_routes: unique_id -> route
    server_protocol,  \* AvroRouter._server_protocol: (protocol json, hash)
    cache,            \* AvroRouter._client_protocol_cache (OrderedDict, insertion order)
    request,          \* the request handled last
    avro_handshake,   \* request.scope['avro_handshake'] of that request ("" when unset)
    invoked,          \* unique_id of the endpoint run for that request (0: none)
    purged,           \* cache keys deleted while handling that request
    response,         \* the response sent for that request
    gateway,          \* the fields of a Gateway object
    calls,            \* what each Gateway.__call__ made so far ended with
    avro_message,     \* the arguments of an AvroMessage(...) and the object constructed
    serialization,    \* an instance of a model, its serialization and what is read back
    tasks,            \* the requests a router handles at once, each at its await point
    framing,          \* payloads, the bytes they are framed into and the frames read back
    generation        \* a model and the schema generated for it

\* the variables of the library's functions taken alone, and of requests
\* handled at once
pure == <<avro_message, serialization, tasks, framing, generation>>

vars == <<routes, avro_routes, server_protocol, cache, request, avro_handshake, invoked,
          purged, response, gateway, calls, pure>>

----------------------------------------------------------------------------
(* Bounds of the model *)

\* registrations explored (length of APIRouter.routes)
MaxRoutes == 2

\* AvroRouter._client_protocol_max_size, scaled down from the program's 100
\* (routing.py:493) so that the model's clients can fill the cache
MaxEntries == 2

\* consecutive calls made through the gateway
MaxCalls == 3

----------------------------------------------------------------------------
(* Schemas and the avro library's compatibility check *)

MessageIds == {1, 2}

\* can data written with schema `writer` be read with schema `reader`
\* (schema 2 is a superset-reader of schema 1, schema 3 is unrelated to both)
Compatible(reader, writer) ==
    \/ reader = writer
    \/ reader = 2 /\ writer = 1

----------------------------------------------------------------------------
(* Protocol JSON and its digest *)

\* AvroMessage.set_oneWay: value or response == 'null'
set_oneWay(value, resp) == value \/ resp = 0

\* errors: the names of the message's error types (<<>> when none is given)
AvroMessage(id, req, resp) ==
    [id |-> id, request |-> req, response |-> resp, oneWay |-> set_oneWay(FALSE, resp),
     errors |-> <<>>]

\* AvroMessage(request=..., response=..., oneWay=...) under the key id of a
\* protocol's messages: the validator is run on the value passed for oneWay
\* (pre=True, always=True); the default None is falsy
AvroMessage_oneWay(id, req, resp, oneWay) ==
    [id |-> id, request |-> req, response |-> resp,
     oneWay |-> set_oneWay(oneWay = "True", resp), errors |-> <<>>]

AvroProtocol(namespace, protocol, messages) ==
    [namespace |-> namespace, protocol |-> protocol, messages |-> messages]

\* repo.name, the namespace and protocol name of every server protocol
name == 9

RECURSIVE json_messages(_)
json_messages(messages) ==
    IF messages = <<>> THEN <<>>
    ELSE LET m == Head(messages)
         IN <<m.id, m.request, m.response, IF m.oneWay THEN 1 ELSE 0, Len(m.errors)>>
            \o m.errors \o json_messages(Tail(messages))

\* BaseModel.json(): the text of a protocol; its messages follow in dict order
json(protocol) == <<protocol.namespace, protocol.protocol>> \o json_messages(protocol.messages)

RECURSIVE parse_messages(_)
parse_messages(text) ==
    IF Len(text) < 5 THEN <<>>
    ELSE <<[AvroMessage_oneWay(text[1], text[2], text[3],
                               IF text[4] = 1 THEN "True" ELSE "False")
               EXCEPT !.errors = SubSeq(text, 6, 5 + text[5])]>>
         \o parse_messages(SubSeq(text, 6 + text[5], Len(text)))

\* AvroProtocol.parse_raw(): the protocol of a text
parse_raw(text) == AvroProtocol(text[1], text[2], parse_messages(SubSeq(text, 3, Len(text))))

\* hashlib.md5(text.encode()).digest(), as a digest folded over the tokens
RECURSIVE md5(_)
md5(text) ==
    IF text = <<>> THEN 7
    ELSE (md5(SubSeq(text, 1, Len(text) - 1)) * 31 + text[Len(text)] + 1) % 65521

----------------------------------------------------------------------------
(* Route registration *)

\* the names of the error models: Error and ValidationError of the library,
\* and two models that routes declare for their error responses
Error_name == 1
ValidationError_name == 2
ErrorModels == {3, 4}

\* AvroRoute: unique_id, body_field (0: none), response_model (0: none),
\* status_code (routing.py:208: 200 unless the route declares one) and
\* responses: the models of the responses declared with a status >= 400
AvroRoute(id, body, resp) ==
    [unique_id |-> id, body_field |-> body, response_model |-> resp, status_code |-> 200,
     responses |-> <<>>]

\* the route kinds the model registers
RouteKinds ==
    {AvroRoute(1, 0, 1), [AvroRoute(1, 1, 0) EXCEPT !.responses = <<4>>], AvroRoute(2, 0, 1),
     [AvroRoute(2, 1, 1) EXCEPT !.status_code = 201, !.responses = <<3>>]}

\* dict.__setitem__ on protocol.messages: replace in place, or append
SetMessage(messages, m) ==
    IF \E i \in 1..Len(messages) : messages[i].id = m.id
    THEN [i \in 1..Len(messages) |-> IF messages[i].id = m.id THEN m ELSE messages[i]]
    ELSE Append(messages, m)

\* AvroRouter.add_avro_route
add_avro_route(table, route) ==
    [id \in DOMAIN table \cup {route.unique_id} |->
        IF id = route.unique_id THEN route ELSE table[id]]

\* routing.py:512-530: the names of the serializer's union followed by the
\* name of every error model of the routes rs that is not yet among them
RECURSIVE error_names(_, _)
error_names(enames, rs) ==
    IF rs = <<>> THEN enames
    ELSE LET declared == Head(rs).responses
             new == SelectSeq(declared, LAMBDA e : \A i \in 1..Len(enames) : enames[i] # e)
         IN error_names(enames \o new, Tail(rs))

\* add_server_protocol keeping the digest of the protocol it started from
add_server_protocol_stale_hash(sp, rs, route) ==
    LET protocol == parse_raw(sp.json)
        messages == SetMessage(protocol.messages,
                        [AvroMessage(route.unique_id, route.body_field, route.response_model)
                            EXCEPT !.errors = error_names(sp.errors, rs)])
    IN [json |-> json(AvroProtocol(protocol.namespace, protocol.protocol, messages)),
        hash |-> md5(sp.json), errors |-> sp.errors]

\* AvroRouter.add_server_protocol
\* (routing.py:506-545): rs is self.routes, the new route included; the
\* serializer built at 545 is given errors, which is serializer._model as
\* read at 519
add_server_protocol(sp, rs, route) ==
    LET protocol == parse_raw(sp.json)
        enames == error_names(sp.errors, rs)
        errors == sp.errors
        messages == SetMessage(protocol.messages,
                        [AvroMessage(route.unique_id, route.body_field, route.response_model)
                            EXCEPT !.errors = enames])
        protocol_json == json(AvroProtocol(protocol.namespace, protocol.protocol, messages))
    IN [json |-> protocol_json, hash |-> md5(protocol_json), errors |-> errors]

----------------------------------------------------------------------------
(* The compatibility cache *)

CacheKeys(c) == {c[i].key : i \in 1..Len(c)}

CacheGet(c, key) == (CHOOSE i \in 1..Len(c) : c[i].key = key)

\* Python's list[k:] for any integer k
SliceFrom(list, k) ==
    LET n == Len(list)
        start == IF k >= 0 THEN (IF k > n THEN n ELSE k) ELSE (IF n + k < 0 THEN 0 ELSE n + k)
    IN SubSeq(list, start + 1, n)

Reversed(list) == [i \in 1..Len(list) |-> list[Len(list) + 1 - i]]

\* the eviction with its size test off by one
Evicted_off_by_one(c) ==
    IF Len(c) > MaxEntries + 1
    THEN LET doomed == SliceFrom(Reversed(c), Len(c) - MaxEntries)
         IN {doomed[i].key : i \in 1..Len(doomed)}
    ELSE {}

\* routing.py:641-648: the keys deleted once the cache is over its size
Evicted(c) ==
    IF Len(c) > MaxEntries
    THEN LET doomed == SliceFrom(Reversed(c), Len(c) - MaxEntries)
         IN {doomed[i].key : i \in 1..Len(doomed)}
    ELSE {}

Purge(c) == SelectSeq(c, LAMBDA e : e.key \notin Evicted(c))

\* the loop passing over a message whose id is not registered instead of
\* raising
RECURSIVE check_messages_skips_unregistered(_, _, _, _)
check_messages_skips_unregistered(table, messages, request_deserializers, client_compatible) ==
    IF messages = <<>>
    THEN [raised |-> FALSE, request_deserializers |-> request_deserializers,
          client_compatible |-> client_compatible]
    ELSE LET client_message == Head(messages)
             route_id == client_message.id
             Raise == [raised |-> TRUE, request_deserializers |-> <<>>, client_compatible |-> FALSE]
         IN IF route_id \notin DOMAIN table
            THEN check_messages_skips_unregistered(table, Tail(messages),
                                                   request_deserializers, client_compatible)
            ELSE LET route == table[route_id]
                     request_ok ==
                        IF client_message.request # 0
                        THEN route.body_field # 0
                             /\ Compatible(route.body_field, client_message.request)
                        ELSE route.body_field = 0
                     deserializers ==
                        IF client_message.request # 0
                        THEN (route_id :> [reader |-> route.body_field,
                                           writer |-> client_message.request])
                             @@ request_deserializers
                        ELSE request_deserializers
                     compatible ==
                        IF client_message.response # 0
                        THEN IF route.response_model # 0
                             THEN client_compatible
                                  /\ Compatible(client_message.response, route.response_model)
                             ELSE client_compatible
                        ELSE IF route.response_model # 0 THEN FALSE ELSE client_compatible
                 IN IF ~request_ok THEN Raise
                    ELSE check_messages_skips_unregistered(table, Tail(messages),
                                                           deserializers, compatible)

\* the loop leaving the flag as it is for a message that expects no response
\* from a route that has a response model
RECURSIVE check_messages_null_response(_, _, _, _)
check_messages_null_response(table, messages, request_deserializers, client_compatible) ==
    IF messages = <<>>
    THEN [raised |-> FALSE, request_deserializers |-> request_deserializers,
          client_compatible |-> client_compatible]
    ELSE LET client_message == Head(messages)
             route_id == client_message.id
             Raise == [raised |-> TRUE, request_deserializers |-> <<>>, client_compatible |-> FALSE]
         IN IF route_id \notin DOMAIN table THEN Raise
            ELSE LET route == table[route_id]
                     request_ok ==
                        IF client_message.request # 0
                        THEN route.body_field # 0
                             /\ Compatible(route.body_field, client_message.request)
                        ELSE route.body_field = 0
                     deserializers ==
                        IF client_message.request # 0
                        THEN (route_id :> [reader |-> route.body_field,
                                           writer |-> client_message.request])
                             @@ request_deserializers
                        ELSE request_deserializers
                     compatible ==
                        IF client_message.response # 0 /\ route.response_model # 0
                        THEN client_compatible
                             /\ Compatible(client_message.response, route.response_model)
                        ELSE client_compatible
                 IN IF ~request_ok THEN Raise
                    ELSE check_messages_null_response(table, Tail(messages),
                                                      deserializers, compatible)

\* routing.py:565-637: the loop over the client protocol's messages; raised
\* is TRUE when an AvroDecodeError leaves the loop
RECURSIVE check_messages(_, _, _, _)
check_messages(table, messages, request_deserializers, client_compatible) ==
    IF messages = <<>>
    THEN [raised |-> FALSE, request_deserializers |-> request_deserializers,
          client_compatible |-> client_compatible]
    ELSE LET client_message == Head(messages)
             route_id == client_message.id
             Raise == [raised |-> TRUE, request_deserializers |-> <<>>, client_compatible |-> FALSE]
         IN IF route_id \notin DOMAIN table THEN Raise
            ELSE LET route == table[route_id]
                     request_ok ==
                        IF client_message.request # 0
                        THEN route.body_field # 0
                             /\ Compatible(route.body_field, client_message.request)
                        ELSE route.body_field = 0
                     deserializers ==
                        IF client_message.request # 0
                        THEN (route_id :> [reader |-> route.body_field,
                                           writer |-> client_message.request])
                             @@ request_deserializers
                        ELSE request_deserializers
                     compatible ==
                        IF client_message.response # 0
                        THEN IF route.response_model # 0
                             THEN client_compatible
                                  /\ Compatible(client_message.response, route.response_model)
                             ELSE client_compatible
                        ELSE IF route.response_model # 0 THEN FALSE ELSE client_compatible
                 IN IF ~request_ok THEN Raise
                    ELSE check_messages(table, Tail(messages), deserializers, compatible)

\* routing.py:561-639: the entry computed for a handshake that carries a
\* client protocol, and whether the computation raised
ComputeEntry(table, handshake) ==
    CHOOSE entry \in
        { [raised |-> r.raised,
           data |-> [key |-> handshake.clientHash,
                     request_deserializers |-> r.request_deserializers,
                     client_compatible |-> r.client_compatible]] :
          r \in {check_messages(table, parse_raw(handshake.clientProtocol).messages,
                                <<>>, TRUE)} } : TRUE

\* check_schema_compatibility taking a missing clientProtocol for a protocol
\* without messages
check_schema_compatibility_empty_protocol(c, table, handshake) ==
    IF handshake.clientHash \in CacheKeys(c)
    THEN [raised |-> FALSE, cache |-> c, purged |-> {},
          data |-> c[CacheGet(c, handshake.clientHash)]]
    ELSE LET e == IF handshake.clientProtocol = <<>>
                  THEN [raised |-> FALSE,
                        data |-> [key |-> handshake.clientHash,
                                  request_deserializers |-> <<>>,
                                  client_compatible |-> TRUE]]
                  ELSE ComputeEntry(table, handshake)
         IN IF e.raised
            THEN [raised |-> TRUE, cache |-> c, purged |-> {}, data |-> <<>>]
            ELSE [raised |-> FALSE, cache |-> Purge(Append(c, e.data)),
                  purged |-> Evicted(Append(c, e.data)), data |-> e.data]

\* check_schema_compatibility computing again whenever a protocol is supplied
check_schema_compatibility_recomputes(c, table, handshake) ==
    IF handshake.clientProtocol = <<>>
    THEN IF handshake.clientHash \in CacheKeys(c)
         THEN [raised |-> FALSE, cache |-> c, purged |-> {},
               data |-> c[CacheGet(c, handshake.clientHash)]]
         ELSE [raised |-> TRUE, cache |-> c, purged |-> {}, data |-> <<>>]
    ELSE LET e == ComputeEntry(table, handshake)
             stored == IF handshake.clientHash \in CacheKeys(c)
                       THEN [i \in 1..Len(c) |->
                                IF c[i].key = handshake.clientHash THEN e.data ELSE c[i]]
                       ELSE Append(c, e.data)
         IN IF e.raised
            THEN [raised |-> TRUE, cache |-> c, purged |-> {}, data |-> <<>>]
            ELSE [raised |-> FALSE, cache |-> Purge(stored),
                  purged |-> Evicted(stored), data |-> e.data]

\* check_schema_compatibility storing its entry before the messages are checked
check_schema_compatibility_early_insert(c, table, handshake) ==
    IF handshake.clientHash \in CacheKeys(c)
    THEN [raised |-> FALSE, cache |-> c, purged |-> {},
          data |-> c[CacheGet(c, handshake.clientHash)]]
    ELSE IF handshake.clientProtocol = <<>>
    THEN [raised |-> TRUE, cache |-> c, purged |-> {}, data |-> <<>>]
    ELSE LET e == ComputeEntry(table, handshake)
             stored == Append(c, e.data)
         IN [raised |-> e.raised, cache |-> Purge(stored),
             purged |-> Evicted(stored), data |-> e.data]

\* AvroRouter.check_schema_compatibility: the result and the cache it leaves
check_schema_compatibility(c, table, handshake) ==
    IF handshake.clientHash \in CacheKeys(c)
    THEN [raised |-> FALSE, cache |-> c, purged |-> {},
          data |-> c[CacheGet(c, handshake.clientHash)]]
    ELSE IF handshake.clientProtocol = <<>>
    THEN [raised |-> TRUE, cache |-> c, purged |-> {}, data |-> <<>>]
    ELSE CHOOSE result \in
            { IF e.raised
              THEN [raised |-> TRUE, cache |-> c, purged |-> {}, data |-> <<>>]
              ELSE [raised |-> FALSE, cache |-> Purge(Append(c, e.data)),
                    purged |-> Evicted(Append(c, e.data)), data |-> e.data] :
              e \in {ComputeEntry(table, handshake)} } : TRUE

----------------------------------------------------------------------------
(* Requests and responses *)

NoHash == -1

\* models (pydantic instances) a response can carry
\* refid: "uuid4" for the bytes of a uuid4() drawn by the handler, "" for None
NoModel == [kind |-> "None", status |-> 0, refid |-> ""]
Error(status, refid) == [kind |-> "Error", status |-> status, refid |-> refid]
ValidationError == [kind |-> "ValidationError", status |-> 0, refid |-> ""]
ResponseModel == [kind |-> "Response", status |-> 0, refid |-> ""]

\* HandshakeResponse; match "" stands for no handshake at all
NoHandshake == [match |-> "", serverProtocol |-> <<>>, serverHash |-> NoHash]
HandshakeResponse(match, serverProtocol, serverHash) ==
    [match |-> match, serverProtocol |-> serverProtocol, serverHash |-> serverHash]

NoCall == [present |-> FALSE, error |-> FALSE, response |-> NoModel]
CallResponse(error, model) == [present |-> TRUE, error |-> error, response |-> model]

\* what has been sent when nothing has
NoResponse ==
    [status |-> 0, content_type |-> "", handshake_match |-> "",
     handshake |-> NoHandshake, call |-> NoCall]

\* AvroJsonResponse.__call__ sending the status code it was built with
AvroJsonResponse_keeps_status(req, scope_handshake, model, handshake_arg, error, status_code) ==
    IF req.accept
    THEN LET handshake == IF scope_handshake.match # "" THEN scope_handshake ELSE handshake_arg
             skip == handshake.match = "BOTH" /\ req.shortcut
             header == IF handshake.match # "" THEN handshake.match ELSE "NONE"
         IN IF handshake.match # "" /\ ~skip
            THEN [raised |-> FALSE,
                  response |-> [status |-> status_code, content_type |-> "avro/binary",
                                handshake_match |-> header, handshake |-> handshake,
                                call |-> IF model.kind # "None"
                                         THEN CallResponse(error, model) ELSE NoCall]]
            ELSE IF model.kind # "None"
            THEN [raised |-> FALSE,
                  response |-> [status |-> status_code, content_type |-> "avro/binary",
                                handshake_match |-> header, handshake |-> NoHandshake,
                                call |-> CallResponse(error, model)]]
            ELSE [raised |-> TRUE, response |-> NoResponse]
    ELSE [raised |-> FALSE,
          response |-> [status |-> status_code, content_type |-> "application/json",
                        handshake_match |-> "", handshake |-> NoHandshake,
                        call |-> IF model.kind # "None"
                                 THEN [present |-> FALSE, error |-> FALSE, response |-> model]
                                 ELSE NoCall]]

\* AvroJsonResponse.__call__ (routing.py:94-164) for a response built with
\* the given model, handshake argument, error flag and status code.
\* raised: the ValueError of routing.py:147
AvroJsonResponse(req, scope_handshake, model, handshake_arg, error, status_code) ==
    IF req.accept
    THEN LET handshake == IF scope_handshake.match # "" THEN scope_handshake ELSE handshake_arg
             skip == handshake.match = "BOTH" /\ req.shortcut
             header == IF handshake.match # "" THEN handshake.match ELSE "NONE"
         IN IF handshake.match # "" /\ ~skip
            THEN [raised |-> FALSE,
                  response |-> [status |-> 200, content_type |-> "avro/binary",
                                handshake_match |-> header, handshake |-> handshake,
                                call |-> IF model.kind # "None"
                                         THEN CallResponse(error, model) ELSE NoCall]]
            ELSE IF model.kind # "None"
            THEN [raised |-> FALSE,
                  response |-> [status |-> 200, content_type |-> "avro/binary",
                                handshake_match |-> header, handshake |-> NoHandshake,
                                call |-> CallResponse(error, model)]]
            ELSE [raised |-> TRUE, response |-> NoResponse]
    ELSE [raised |-> FALSE,
          response |-> [status |-> status_code, content_type |-> "application/json",
                        handshake_match |-> "", handshake |-> NoHandshake,
                        call |-> IF model.kind # "None"
                                 THEN [present |-> FALSE, error |-> FALSE, response |-> model]
                                 ELSE NoCall]]

\* the handshake answered from the server hash alone
handshake_response_hash_only(sp, serverHash, response_compatibility) ==
    IF serverHash = sp.hash
    THEN HandshakeResponse("BOTH", <<>>, NoHash)
    ELSE HandshakeResponse("CLIENT", sp.json, sp.hash)

\* routing.py:680-690: the handshake answered once the client protocol is known
handshake_response(sp, serverHash, response_compatibility) ==
    IF serverHash = sp.hash /\ response_compatibility
    THEN HandshakeResponse("BOTH", <<>>, NoHash)
    ELSE HandshakeResponse("CLIENT", sp.json, sp.hash)

\* a NONE handshake that leaves the server protocol out
none_handshake_bare(sp) == HandshakeResponse("NONE", <<>>, NoHash)

\* routing.py:764-768 (and 339-343, 360-364, 803-807): the handshake the
\* error handlers pass to their response
none_handshake(sp) == HandshakeResponse("NONE", sp.json, sp.hash)

\* routing.py:677-724: settle_avro_handshake from the result csc of
\* check_schema_compatibility on
settle_call(csc, table, sp, req) ==
    LET Raise(kind, hs) ==
            [raised |-> kind, cache |-> csc.cache, purged |-> csc.purged,
             avro_handshake |-> hs, route |-> 0, avro_body |-> "unset"]
    IN IF csc.raised THEN Raise("AvroDecodeError", NoHandshake)
       ELSE LET request_deserializers == csc.data.request_deserializers
                response_compatibility == csc.data.client_compatible
                hs == handshake_response(sp, req.serverHash, response_compatibility)
                message == req.call.message
            IN IF ~req.call.present
               THEN [raised |-> "", cache |-> csc.cache, purged |-> csc.purged,
                     avro_handshake |-> hs, route |-> 0, avro_body |-> "unset"]
               ELSE IF message \notin DOMAIN table
               THEN Raise("AvroDecodeError", hs)
               ELSE IF message \notin DOMAIN request_deserializers
                        /\ table[message].body_field # 0
               THEN Raise("AvroDecodeError", hs)
               ELSE IF message \in DOMAIN request_deserializers
                        /\ table[message].body_field # 0
                        /\ req.call.request = "undecodable"
               THEN Raise("Exception", hs)
               ELSE [raised |-> "", cache |-> csc.cache, purged |-> csc.purged,
                     avro_handshake |-> hs, route |-> message,
                     avro_body |-> IF message \notin DOMAIN request_deserializers
                                   THEN "None"
                                   ELSE IF table[message].body_field # 0
                                   THEN "decoded" ELSE "unset"]

\* AvroRouter.settle_avro_handshake (routing.py:653-724).
\* raised: "" (returns), "AvroDecodeError" or "Exception";
\* route: the unique_id returned (0: None)
settle_avro_handshake(c, table, sp, req) ==
    IF req.body # "frames"
    THEN [raised |-> IF req.body = "malformed" THEN "Exception" ELSE "AvroDecodeError",
          cache |-> c, purged |-> {},
          avro_handshake |-> NoHandshake, route |-> 0, avro_body |-> "unset"]
    ELSE CHOOSE settled \in
            { settle_call(csc, table, sp, req) :
              csc \in {check_schema_compatibility(c, table, req)} } : TRUE

\* the app reporting a body that fails validation like a body it cannot read
handle_avro_error_400(route, sp, req, scope_handshake, avro_body) ==
    LET none == none_handshake(sp)
    IN IF avro_body = "unset" \/ (avro_body = "decoded" /\ req.call.request = "invalid")
       THEN [invoked |-> FALSE,
             sent |-> AvroJsonResponse(req, scope_handshake, Error(400, ""), none, TRUE, 200)]
       ELSE IF req.endpoint = "raises"
       THEN [invoked |-> TRUE, sent |-> [raised |-> TRUE, response |-> NoResponse]]
       ELSE [invoked |-> TRUE,
             sent |-> AvroJsonResponse(req, scope_handshake,
                           IF route.response_model # 0 THEN ResponseModel ELSE NoModel,
                           NoHandshake, FALSE, 200)]

\* the app of AvroRoute.get_route_handler (routing.py:282-423) run on the
\* route that settle_avro_handshake returned.
\* invoked: whether run_endpoint_function was reached;
\* raised: an exception leaves the app
handle_avro(route, sp, req, scope_handshake, avro_body) ==
    LET none == none_handshake(sp)
    IN IF avro_body = "unset"
       \* KeyError on scope['avro_body'], caught at routing.py:347
       THEN [invoked |-> FALSE,
             sent |-> AvroJsonResponse(req, scope_handshake, Error(400, ""), none, TRUE, 200)]
       ELSE IF avro_body = "decoded" /\ req.call.request = "invalid"
       THEN [invoked |-> FALSE,
             sent |-> AvroJsonResponse(req, scope_handshake, ValidationError, NoHandshake, TRUE, 200)]
       ELSE IF req.endpoint = "raises"
       THEN [invoked |-> TRUE, sent |-> [raised |-> TRUE, response |-> NoResponse]]
       ELSE [invoked |-> TRUE,
             sent |-> AvroJsonResponse(req, scope_handshake,
                           IF route.response_model # 0 THEN ResponseModel ELSE NoModel,
                           NoHandshake, FALSE, route.status_code)]

\* AvroRouter.__call__ without its handler for Exception: what is raised
\* while the request is served leaves the dispatcher, nothing is sent
dispatch_reraises(s, table, sp, req) ==
    LET none == none_handshake(sp)
        decode_error ==
            AvroJsonResponse(req, s.avro_handshake, Error(400, ""), none, TRUE, 400).response
        Result(inv, resp) ==
            [cache |-> s.cache, purged |-> s.purged, avro_handshake |-> s.avro_handshake,
             invoked |-> inv, response |-> resp]
    IN IF s.raised = "AvroDecodeError" THEN Result(0, decode_error)
       ELSE IF s.raised = "Exception" THEN Result(0, NoResponse)
       ELSE IF s.route = 0
       THEN LET sent == AvroJsonResponse(req, s.avro_handshake, NoModel, NoHandshake, FALSE, 200)
            IN Result(0, IF sent.raised THEN NoResponse ELSE sent.response)
       ELSE LET h == handle_avro(table[s.route], sp, req, s.avro_handshake, s.avro_body)
            IN Result(IF h.invoked THEN s.route ELSE 0,
                      IF h.sent.raised THEN NoResponse ELSE h.sent.response)

\* routing.py:742-822: AvroRouter.__call__ from the result s of
\* settle_avro_handshake on
dispatch(s, table, sp, req) ==
    LET none == none_handshake(sp)
        \* except AvroDecodeError (routing.py:749-782)
        decode_error ==
            AvroJsonResponse(req, s.avro_handshake, Error(400, ""), none, TRUE, 400).response
        \* except Exception (routing.py:784-822)
        exception ==
            AvroJsonResponse(req, s.avro_handshake, Error(500, "uuid4"), none, TRUE, 500).response
        Result(inv, resp) ==
            [cache |-> s.cache, purged |-> s.purged, avro_handshake |-> s.avro_handshake,
             invoked |-> inv, response |-> resp]
    IN IF s.raised = "AvroDecodeError" THEN Result(0, decode_error)
       ELSE IF s.raised = "Exception" THEN Result(0, exception)
       ELSE IF s.route = 0
       THEN LET sent == AvroJsonResponse(req, s.avro_handshake, NoModel, NoHandshake, FALSE, 200)
            IN Result(0, IF sent.raised THEN exception ELSE sent.response)
       ELSE LET h == handle_avro(table[s.route], sp, req, s.avro_handshake, s.avro_body)
            IN Result(IF h.invoked THEN s.route ELSE 0,
                      IF h.sent.raised THEN exception ELSE h.sent.response)

\* AvroRouter.__call__ looking the route of a call up by the path of the
\* request
AvroRouter_call_by_path(c, table, sp, req) ==
    LET addressed == IF req.call.present THEN [req EXCEPT !.call.message = req.path]
                     ELSE req
    IN CHOOSE result \in
          { dispatch(s, table, sp, addressed) :
            s \in {settle_avro_handshake(c, table, sp, addressed)} } : TRUE

\* AvroRouter.__call__ for content-type avro/binary (routing.py:728-824):
\* the cache it leaves, scope['avro_handshake'], the endpoint run and the
\* response sent
AvroRouter_call(c, table, sp, req) ==
    CHOOSE result \in
        { dispatch(s, table, sp, req) : s \in {settle_avro_handshake(c, table, sp, req)} } :
        TRUE

\* what the host application answers by itself: 404 when no route matches,
\* 422 for a RequestValidationError, 500 for any other exception
HostResponse(status) ==
    [status |-> status, content_type |-> "application/json", handshake_match |-> "",
     handshake |-> NoHandshake, call |-> NoCall]

\* the same app building the endpoint's response without the route's status
\* code
handle_json_status_200(route, req) ==
    IF route.body_field # 0 /\ req.call.request = "undecodable"
    THEN [invoked |-> FALSE, response |-> HostResponse(422)]
    ELSE IF route.body_field # 0 /\ req.call.request = "invalid"
    THEN [invoked |-> FALSE,
          response |-> AvroJsonResponse(req, NoHandshake, ValidationError, NoHandshake,
                                        TRUE, 200).response]
    ELSE IF req.endpoint = "raises"
    THEN [invoked |-> TRUE, response |-> HostResponse(500)]
    ELSE LET sent == AvroJsonResponse(req, NoHandshake,
                         IF route.response_model # 0 THEN ResponseModel ELSE NoModel,
                         NoHandshake, FALSE, 200)
         IN [invoked |-> TRUE,
             response |-> IF sent.raised THEN HostResponse(500) ELSE sent.response]

\* the app of AvroRoute.get_route_handler (routing.py:282-423) on a request
\* whose content type is not avro/binary: the body is read as JSON
\* (routing.py:291-324), validated and given to the endpoint; the response
\* class is AvroJsonResponse, with the route's status code (routing.py:414-417)
handle_json(route, req) ==
    IF route.body_field # 0 /\ req.call.request = "undecodable"
    \* RequestValidationError, routing.py:324
    THEN [invoked |-> FALSE, response |-> HostResponse(422)]
    ELSE IF route.body_field # 0 /\ req.call.request = "invalid"
    THEN [invoked |-> FALSE,
          response |-> AvroJsonResponse(req, NoHandshake, ValidationError, NoHandshake,
                                        TRUE, 200).response]
    ELSE IF req.endpoint = "raises"
    THEN [invoked |-> TRUE, response |-> HostResponse(500)]
    ELSE LET sent == AvroJsonResponse(req, NoHandshake,
                         IF route.response_model # 0 THEN ResponseModel ELSE NoModel,
                         NoHandshake, FALSE, route.status_code)
         IN [invoked |-> TRUE,
             response |-> IF sent.raised THEN HostResponse(500) ELSE sent.response]

\* AvroRouter.__call__ for any other content type (routing.py:728, 826): the
\* request goes to the host router, which runs the first route registered
\* for its path.  rs: the routes in the order of their registration
Router_call(c, rs, req) ==
    LET matching == { k \in 1..Len(rs) : rs[k].unique_id = req.call.message }
        Result(inv, resp) ==
            [cache |-> c, purged |-> {}, avro_handshake |-> NoHandshake,
             invoked |-> inv, response |-> resp]
    IN IF matching = {} THEN Result(0, HostResponse(404))
       ELSE LET route == rs[CHOOSE k \in matching : \A j \in matching : k <= j]
                h == handle_json(route, req)
            IN Result(IF h.invoked THEN route.unique_id ELSE 0, h.response)

----------------------------------------------------------------------------
(* The client gateway *)

\* gateway.py:85, the serverHash of a gateway that has learned no server protocol
SentinelHash == 65521

\* Gateway.__init__, attempts (gateway.py:41)
Attempts == 3

\* Gateway.__init__, backoff (gateway.py:43)
backoff(attempt) == attempt * attempt

\* schema.get_name: schemas 1 and 2 are two versions of one named record,
\* schema 3 is a record of another name, 0 is 'null'
get_name(schema) ==
    IF schema = 0 THEN "null" ELSE IF schema \in {1, 2} THEN "Response" ELSE "Other"

\* gateway.py:73-83: the client protocol of a gateway for message `protocol`.
\* The constructor passes no namespace (token 0); pydantic requires one, so
\* the constructor as written raises here.  The gateway states below are
\* those Gateway.__call__ runs from once the protocol object exists.
Gateway_client_protocol(protocol, request_model, response_model) ==
    AvroProtocol(0, protocol, <<AvroMessage(protocol, request_model, response_model)>>)

\* _deserializer = None
NoDeserializer == [read_model |-> 0, read_schema |-> 0, write_schema |-> 0]

NoGateway ==
    [message_name |-> 0, request_model |-> 0, response_model |-> 0, attempts |-> 0,
     handshake_status |-> "", server_hash |-> NoHash, client_hash |-> NoHash,
     client_protocol |-> <<>>, deserializer |-> NoDeserializer]

\* gateway.py:57-95: the fields the constructor assigns.  request_model
\* stands for _serializer (set iff a request model is given)
Gateway_init(protocol, request_model, response_model, attempts) ==
    [message_name |-> protocol, request_model |-> request_model,
     response_model |-> response_model, attempts |-> attempts,
     handshake_status |-> "", server_hash |-> SentinelHash,
     client_hash |-> md5(json(Gateway_client_protocol(protocol, request_model,
                                                       response_model))),
     client_protocol |-> Gateway_client_protocol(protocol, request_model, response_model),
     deserializer |-> NoDeserializer]

\* gateway.py:191: AvroDeserializer(self._response_model, <server schema>); the
\* second positional parameter of AvroDeserializer is read_schema, and with
\* no write_model the write schema is the read schema (serialization.py:299-323)
Gateway_deserializer(response_model, server_schema) ==
    [read_model |-> response_model, read_schema |-> server_schema,
     write_schema |-> server_schema]

\* the gateways of the model: the message, the request and response models
\* and the attempts they are constructed with
GatewayKinds ==
    { [protocol |-> 1, request_model |-> 0, response_model |-> 1, attempts |-> Attempts],
      [protocol |-> 1, request_model |-> 0, response_model |-> 1, attempts |-> 1],
      [protocol |-> 1, request_model |-> 0, response_model |-> 2, attempts |-> Attempts],
      [protocol |-> 2, request_model |-> 0, response_model |-> 1, attempts |-> Attempts],
      [protocol |-> 1, request_model |-> 1, response_model |-> 1, attempts |-> Attempts] }

\* the states calls leave a gateway in: the constructed one (status None,
\* sentinel hash, no reader), a status of None with a server hash learned
\* earlier, a status of BOTH or CLIENT with a learned server hash (the
\* server's current one, or `stale`); the response reader is built when a
\* server hash is learned
GatewayStates(sp, stale) ==
    { [Gateway_init(k.protocol, k.request_model, k.response_model, k.attempts)
         EXCEPT !.handshake_status = sh[1],
                !.server_hash = sh[2],
                !.deserializer = IF sh[2] = SentinelHash THEN NoDeserializer
                                 ELSE Gateway_deserializer(k.response_model, 1)] :
        k \in GatewayKinds,
        sh \in ({""} \X {SentinelHash, sp.hash, stale})
               \cup ({"BOTH", "CLIENT"} \X {sp.hash, stale}) }

\* gateway.py:127-130: the CallRequest of a call; without a serializer the
\* request is the text 'null'
Gateway_call_request(g) ==
    [message |-> g.message_name,
     request |-> IF g.request_model # 0 THEN "serialized" ELSE "null"]

\* gateway.py:112-143: the request of one attempt as the router reads it
Gateway_request(g, handshake, endpoint) ==
    [accept |-> TRUE, shortcut |-> FALSE, body |-> "frames",
     clientHash |-> handshake.clientHash, clientProtocol |-> handshake.clientProtocol,
     serverHash |-> handshake.serverHash,
     call |-> [present |-> TRUE, message |-> g.message_name, request |-> "valid"],
     endpoint |-> endpoint, path |-> g.message_name]

\* the CLIENT branch storing the server's hash without building the reader
Gateway_client_match_no_reader(g, handshake) ==
    [g EXCEPT !.server_hash = handshake.serverHash]

\* gateway.py:186-198: what a CLIENT answer leaves in the gateway.  The
\* message's response becomes the server's response name: the protocol text
\* changes only if that is not the name of the gateway's own response
Gateway_client_match(g, handshake) ==
    LET server_protocol_ == parse_raw(handshake.serverProtocol)
        i == CHOOSE k \in 1..Len(server_protocol_.messages) :
                server_protocol_.messages[k].id = g.message_name
        server_response == server_protocol_.messages[i].response
        client_protocol ==
            [g.client_protocol EXCEPT !.messages =
                [k \in 1..Len(@) |->
                    IF @[k].id = g.message_name
                       /\ get_name(@[k].response) # get_name(server_response)
                    THEN [@[k] EXCEPT !.response = server_response] ELSE @[k]]]
    IN [g EXCEPT !.deserializer = IF g.response_model # 0
                                  THEN Gateway_deserializer(g.response_model, server_response)
                                  ELSE @,
                 !.server_hash = handshake.serverHash,
                 !.client_protocol = client_protocol,
                 !.client_hash = md5(json(client_protocol))]

\* nothing sent, nothing read, no sleep
NoLog == [requests |-> <<>>, matches |-> <<>>, slept |-> <<>>, last |-> <<>>]

\* gateway.py:147-231: the attempts of one call from attempt number `attempt`
\* on.  handshake is the HandshakeRequest built before the loop; transport
\* is "ok" when the router receives the attempts and answers them, else the
\* exception aiohttp raises for each of them.  An exception raised on entering
\* `async with` (gateway.py:148-152) is outside the try of line 153 and
\* leaves the call; so does one raised in the body that is no
\* ClientResponseError.  A ClientResponseError raised in the body ("on read")
\* is the one line 227 handles: sleep, then the next attempt.
\* outcome: "returned", "None" (the loop ran out), or the exception raised;
\* log: the handshakes sent, the matches read, the sleeps, and the last
\* request with the router's result for it
RECURSIVE Gateway_attempts(_, _, _, _, _, _, _, _, _)
Gateway_attempts(g, c, table, sp, handshake, endpoint, transport, attempt, log) ==
    IF attempt > g.attempts
    THEN [gateway |-> g, cache |-> c, outcome |-> "None", log |-> log]
    ELSE IF transport = "ClientResponseError on read"
    THEN Gateway_attempts(g, c, table, sp, handshake, endpoint, transport, attempt + 1,
             [log EXCEPT !.requests = Append(@, handshake),
                         !.slept = Append(@, backoff(attempt))])
    ELSE IF transport # "ok"
    THEN [gateway |-> g, cache |-> c, outcome |-> transport,
          log |-> [log EXCEPT !.requests = Append(@, handshake)]]
    ELSE CHOOSE result \in
        { LET response_handshake == r.response.handshake
              seen == [requests |-> Append(log.requests, handshake),
                       matches |-> Append(log.matches, response_handshake.match),
                       slept |-> log.slept,
                       last |-> [request |-> Gateway_request(g, handshake, endpoint),
                                 result |-> r]]
              Done(g1, outcome) ==
                 [gateway |-> g1, cache |-> r.cache, outcome |-> outcome, log |-> seen]
          IN IF response_handshake.match = ""
             THEN Done(g, "AssertionError")
             ELSE IF response_handshake.match = "NONE"
             THEN IF g.handshake_status # ""
                  THEN Gateway_attempts([g EXCEPT !.handshake_status = ""], r.cache, table, sp,
                           [handshake EXCEPT !.clientProtocol = json(g.client_protocol)],
                           endpoint, transport, attempt + 1, seen)
                  ELSE Done(g, "ValueError: protocols are incompatible!")
             ELSE LET g1 == IF response_handshake.match = "CLIENT"
                            THEN Gateway_client_match(g, response_handshake) ELSE g
                      g2 == [g1 EXCEPT !.handshake_status = response_handshake.match]
                  IN IF ~r.response.call.present THEN Done(g2, "AssertionError")
                     ELSE IF r.response.call.error THEN Done(g2, "ValueError: error")
                     ELSE IF g2.response_model # 0 /\ g2.deserializer = NoDeserializer
                     THEN Done(g2, "TypeError")
                     ELSE Done(g2, "returned") :
          r \in {AvroRouter_call(c, table, sp, Gateway_request(g, handshake, endpoint))} } :
        TRUE

\* Gateway.__call__ leaving the client protocol out whenever a status is set
Gateway_call_omits_on_client(g, c, table, sp, endpoint, transport) ==
    LET handshake ==
            [clientHash |-> g.client_hash,
             clientProtocol |-> IF g.handshake_status = ""
                                THEN json(g.client_protocol) ELSE <<>>,
             serverHash |-> g.server_hash]
    IN IF g.request_model # 0
       THEN [gateway |-> g, cache |-> c, outcome |-> "TypeError: missing body", log |-> NoLog]
       ELSE Gateway_attempts(g, c, table, sp, handshake, endpoint, transport, 1, NoLog)

\* Gateway.__call__ (gateway.py:102-231): with a serializer the call raises
\* at line 110, whatever body it is given
Gateway_call(g, c, table, sp, endpoint, transport) ==
    LET handshake ==
            [clientHash |-> g.client_hash,
             clientProtocol |-> IF g.handshake_status # "BOTH"
                                THEN json(g.client_protocol) ELSE <<>>,
             serverHash |-> g.server_hash]
    IN IF g.request_model # 0
       THEN [gateway |-> g, cache |-> c, outcome |-> "TypeError: missing body", log |-> NoLog]
       ELSE Gateway_attempts(g, c, table, sp, handshake, endpoint, transport, 1, NoLog)

----------------------------------------------------------------------------
(* The clients of the model *)

\* client protocols that requests present: the gateway's, and two others
ClientProtocols ==
    { Gateway_client_protocol(1, 0, 1),
      AvroProtocol(8, 8, <<AvroMessage(1, 0, 3)>>),
      AvroProtocol(8, 8, <<AvroMessage(1, 1, 0), AvroMessage(2, 0, 1)>>) }

\* client protocols that are only presented under their own hash: one with a
\* request schema no route reads, one that expects no response, one that
\* expects a response to a message that carries a request
OwnHashProtocols ==
    { AvroProtocol(8, 8, <<AvroMessage(1, 2, 0)>>),
      AvroProtocol(8, 8, <<AvroMessage(2, 0, 0)>>),
      AvroProtocol(8, 8, <<AvroMessage(1, 1, 1)>>) }

ClientProtocolTexts == {json(p) : p \in ClientProtocols}

ClientHashes == {md5(t) : t \in ClientProtocolTexts}

NoCallRequest == [present |-> FALSE, message |-> 0, request |-> "valid"]

NoRequest ==
    [accept |-> FALSE, shortcut |-> FALSE, body |-> "", clientHash |-> NoHash,
     clientProtocol |-> <<>>, serverHash |-> NoHash, call |-> NoCallRequest,
     endpoint |-> "returns", path |-> 0]

\* the calls of a request: none, or a message with a request payload that
\* decodes and validates, decodes and fails validation, or does not decode
CallRequests ==
    {NoCallRequest}
    \cup {[present |-> TRUE, message |-> m, request |-> r] :
            m \in MessageIds, r \in {"valid", "invalid", "undecodable"}}

\* path: the unique_id of the route that the URL path and the method of the
\* request address (0: no route)
\* avro/binary requests: the accept header, the three short-circuit headers,
\* the body (no body, frames that decode to no handshake, frames the
\* handshake reader rejects with another exception than TypeError, or a
\* handshake followed by an optional call) and what the endpoint does if it
\* is run
Requests(sp) ==
    { [accept |-> a, shortcut |-> FALSE, body |-> b, clientHash |-> NoHash,
       clientProtocol |-> <<>>, serverHash |-> NoHash, call |-> NoCallRequest,
       endpoint |-> "returns", path |-> 0] :
        a \in BOOLEAN, b \in {"empty", "garbage", "malformed"} }
    \cup
    { r \in [accept : BOOLEAN, shortcut : BOOLEAN, body : {"frames"},
             clientHash : ClientHashes, clientProtocol : ClientProtocolTexts \cup {<<>>},
             serverHash : {sp.hash, SentinelHash}, call : CallRequests,
             endpoint : {"returns", "raises"}, path : {0} \cup MessageIds] :
        /\ r.path = r.call.message
        /\ r.shortcut => r.accept
        /\ r.endpoint = "raises" => r.call.present /\ r.call.request = "valid" }
    \cup
    { [accept |-> TRUE, shortcut |-> FALSE, body |-> "frames", clientHash |-> md5(json(p)),
       clientProtocol |-> IF sent THEN json(p) ELSE <<>>, serverHash |-> h, call |-> c,
       endpoint |-> "returns", path |-> u] :
        p \in OwnHashProtocols, sent \in BOOLEAN, h \in {sp.hash, SentinelHash},
        u \in {0} \cup MessageIds,
        c \in {NoCallRequest} \cup {[present |-> TRUE, message |-> m, request |-> "valid"] :
                                      m \in MessageIds} }

\* requests with another content type, addressed to the path of a message:
\* a JSON body that validates, fails validation or does not parse
JsonRequests ==
    { r \in [accept : BOOLEAN, shortcut : {FALSE}, body : {"json"}, clientHash : {NoHash},
             clientProtocol : {<<>>}, serverHash : {NoHash},
             call : CallRequests \ {NoCallRequest}, endpoint : {"returns", "raises"},
             path : MessageIds] :
        /\ r.path = r.call.message
        /\ r.endpoint = "raises" => r.call.request = "valid" }

----------------------------------------------------------------------------
(* The router as a state machine *)

\* no AvroMessage is being constructed
NoMessage == [args |-> <<>>, constructed |-> <<>>]

\* the library's functions are not being exercised
\* no instance is being serialized
NoSerialization ==
    [model |-> <<>>, x |-> <<>>, phase |-> "", bytes |-> <<>>, result |-> <<>>,
     raised |-> ""]

NoFraming == [payloads |-> <<>>, rest |-> <<>>, bytes |-> <<>>, frames |-> <<>>, phase |-> ""]

\* no AvroSchemaGenerator
NoGeneration ==
    [model |-> "", phase |-> "", name |-> "", namespace |-> <<>>, refs |-> {}, stack |-> <<>>,
     schema |-> <<>>, visits |-> <<>>, results |-> <<>>]

Idle ==
    /\ avro_message = NoMessage
    /\ serialization = NoSerialization
    /\ tasks = <<>>
    /\ framing = NoFraming
    /\ generation = NoGeneration

\* AvroRouter.__init__ (routing.py:476-484): the protocol without messages
AvroRouter_init ==
    LET protocol == json(AvroProtocol(name, name, <<>>))
    IN [json |-> protocol, hash |-> md5(protocol),
        errors |-> <<Error_name, ValidationError_name>>]

Init ==
    /\ routes = <<>>
    /\ avro_routes = <<>>
    /\ server_protocol = AvroRouter_init
    /\ cache = <<>>
    /\ request = NoRequest
    /\ avro_handshake = NoHandshake
    /\ invoked = 0
    /\ purged = {}
    /\ response = NoResponse
    /\ gateway = NoGateway
    /\ calls = <<>>
    /\ Idle

\* AvroRouter.add_api_route: register a route (between requests)
add_api_route ==
    \E route \in RouteKinds :
        /\ request = NoRequest
        /\ Len(routes) < MaxRoutes
        /\ routes' = Append(routes, route)
        /\ avro_routes' = add_avro_route(avro_routes, route)
        /\ server_protocol' = add_server_protocol(server_protocol, Append(routes, route), route)
        /\ UNCHANGED <<cache, request, avro_handshake, invoked, purged, response,
                       gateway, calls, pure>>

\* AvroRouter.__call__ taking the serverHash of the request for the hash of
\* its own protocol
Serve_adopts_hash(req) ==
    \E r \in {AvroRouter_call(cache, avro_routes, server_protocol, req)} :
       /\ request' = req
       /\ cache' = r.cache
       /\ purged' = r.purged
       /\ avro_handshake' = r.avro_handshake
       /\ invoked' = r.invoked
       /\ response' = r.response
       /\ server_protocol' = [server_protocol EXCEPT !.hash =
                                 IF req.serverHash = NoHash THEN @ ELSE req.serverHash]
       /\ UNCHANGED <<routes, avro_routes, gateway, calls, pure>>

\* AvroRouter.__call__ on the avro/binary request req
Serve(req) ==
    \E r \in {AvroRouter_call(cache, avro_routes, server_protocol, req)} :
       /\ request' = req
       /\ cache' = r.cache
       /\ purged' = r.purged
       /\ avro_handshake' = r.avro_handshake
       /\ invoked' = r.invoked
       /\ response' = r.response
       /\ UNCHANGED <<routes, avro_routes, server_protocol, gateway, calls, pure>>

\* AvroRouter.__call__ on an avro/binary request
HandleAvro ==
    /\ request = NoRequest
    /\ \E req \in Requests(server_protocol) : Serve(req)

\* AvroRouter.__call__ on a request of another content type
HandleJson ==
    /\ request = NoRequest
    /\ \E req \in JsonRequests :
       \E r \in {Router_call(cache, routes, req)} :
          /\ request' = req
          /\ cache' = r.cache
          /\ purged' = r.purged
          /\ avro_handshake' = r.avro_handshake
          /\ invoked' = r.invoked
          /\ response' = r.response
          /\ UNCHANGED <<routes, avro_routes, server_protocol, gateway, calls, pure>>

\* the response has been sent: the request and its scope are dropped
Finish ==
    /\ request # NoRequest
    /\ request' = NoRequest
    /\ avro_handshake' = NoHandshake
    /\ invoked' = 0
    /\ purged' = {}
    /\ response' = NoResponse
    /\ UNCHANGED <<routes, avro_routes, server_protocol, cache, gateway, calls, pure>>

Next == add_api_route \/ HandleAvro \/ HandleJson \/ Finish

Spec == Init /\ [][Next]_vars

----------------------------------------------------------------------------
(* A gateway calling a router *)

\* the route the gateway's message is served by
GatewayRoute == AvroRoute(1, 0, 1)

\* a router that serves the gateway's message with a response schema the
\* gateway's reads, its cache empty, and a gateway in any of its states
GatewayInit ==
    /\ routes = <<GatewayRoute>>
    /\ avro_routes = add_avro_route(<<>>, GatewayRoute)
    /\ server_protocol = add_server_protocol(AvroRouter_init, <<GatewayRoute>>, GatewayRoute)
    /\ cache = <<>>
    /\ request = NoRequest
    /\ avro_handshake = NoHandshake
    /\ invoked = 0
    /\ purged = {}
    /\ response = NoResponse
    /\ gateway \in GatewayStates(server_protocol, AvroRouter_init.hash)
    /\ calls = <<>>
    /\ Idle

\* the handshakes of other clients: any of their hashes with any of their
\* protocol texts, or with none
OtherRequests(sp) ==
    { r \in Requests(sp) :
        /\ r.body = "frames" /\ r.accept /\ ~r.shortcut
        /\ r.serverHash = sp.hash
        /\ r.call = NoCallRequest }

\* requests of other clients, which fill the cache before the gateway calls
OtherClient ==
    /\ calls = <<>>
    /\ request = NoRequest
    /\ \E req \in OtherRequests(server_protocol) : Serve(req)

\* what a call that reached no router leaves of the last request
Unserved ==
    [request |-> NoRequest,
     result |-> [purged |-> {}, avro_handshake |-> NoHandshake, invoked |-> 0,
                 response |-> NoResponse]]

\* the transport of a call: the router is reached and answers; aiohttp raises
\* ClientResponseError for the status of the answer (raise_for_status), on
\* entering the request or while the answer is read; the connection fails;
\* the request times out
Transports ==
    {"ok", "ClientResponseError", "ClientResponseError on read",
     "ClientConnectionError", "TimeoutError"}

\* Gateway.__call__: every attempt of one call, each handled by the router
GatewayCall ==
    /\ request = NoRequest
    /\ Len(calls) < MaxCalls
    /\ \E endpoint \in {"returns", "raises"}, transport \in Transports :
        \E r \in {Gateway_call(gateway, cache, avro_routes, server_protocol,
                               endpoint, transport)} :
         \E last \in {IF r.log.last = <<>> THEN Unserved ELSE r.log.last} :
           /\ transport # "ok" => endpoint = "returns"
           /\ gateway' = r.gateway
           /\ cache' = r.cache
           /\ calls' = Append(calls,
                          [outcome |-> r.outcome,
                           match |-> IF r.log.matches = <<>> THEN ""
                                     ELSE r.log.matches[Len(r.log.matches)],
                           before |-> gateway,
                           transport |-> transport,
                           call_request |-> IF r.log.requests = <<>> THEN <<>>
                                            ELSE <<Gateway_call_request(gateway)>>,
                           requests |-> r.log.requests,
                           matches |-> r.log.matches,
                           slept |-> r.log.slept])
           /\ request' = last.request
           /\ purged' = last.result.purged
           /\ avro_handshake' = last.result.avro_handshake
           /\ invoked' = last.result.invoked
           /\ response' = last.result.response
           /\ UNCHANGED <<routes, avro_routes, server_protocol, pure>>

GatewayNext == OtherClient \/ GatewayCall \/ Finish

GatewaySpec == GatewayInit /\ [][GatewayNext]_vars

----------------------------------------------------------------------------
(* Properties of the handshake and of the cache *)

\* a request has just been handled
Handled == request = NoRequest /\ request' # NoRequest

\* the request being served has content type avro/binary (routing.py:728)
AvroRequest == request # NoRequest /\ request.body # "json"

\* the handshake of the request decoded and the client protocol is known to
\* the router (it was cached, or it was supplied and passed the check): the
\* request's clientHash has an entry once the request is handled
Resolved == request.body = "frames" /\ request.clientHash \in CacheKeys(cache)

Entry(hash) == cache[CacheGet(cache, hash)]

\* C1: an avro/binary request whose handshake resolves is answered BOTH,
\* without serverProtocol and serverHash, exactly when its serverHash is the
\* router's protocol hash and the entry's clientCompatible flag is true, and
\* is answered CLIENT with serverProtocol and serverHash in every other case
C1_MatchOfResolvedHandshake ==
    (request.accept /\ Resolved) =>
        IF request.serverHash = server_protocol.hash
           /\ Entry(request.clientHash).client_compatible
        THEN /\ response.handshake_match = "BOTH"
             /\ avro_handshake.match = "BOTH"
             /\ response.handshake.serverProtocol = <<>>
             /\ response.handshake.serverHash = NoHash
        ELSE /\ response.handshake_match = "CLIENT"
             /\ response.handshake.match = "CLIENT"
             /\ response.handshake.serverProtocol = server_protocol.json
             /\ response.handshake.serverHash = server_protocol.hash

\* C1 witness: a cached client that sends the current server hash is answered BOTH
C1_Witness ==
    /\ request.accept /\ Resolved
    /\ request.clientProtocol = <<>>
    /\ request.serverHash = server_protocol.hash
    /\ Entry(request.clientHash).client_compatible
    /\ response.handshake.match = "BOTH"

\* C2: when the handshake outcome is NONE (no handshake was settled for the
\* request) no endpoint is run, and the avro response is the NONE handshake
\* with serverProtocol and serverHash followed by a CallResponse with
\* error = true that carries the built-in Error; no other request is
\* answered NONE
C2_NoneIsNotDispatched ==
    /\ (AvroRequest /\ avro_handshake.match = "") =>
          /\ invoked = 0
          /\ request.accept =>
                /\ response.handshake.match = "NONE"
                /\ response.handshake.serverProtocol = server_protocol.json
                /\ response.handshake.serverHash = server_protocol.hash
                /\ response.call.present
                /\ response.call.error
                /\ response.call.response.kind = "Error"
    /\ response.handshake.match = "NONE" => avro_handshake.match = ""

\* C2 witness: a NONE answer to a request that calls a registered message
C2_Witness ==
    /\ request.accept
    /\ request.call.present
    /\ request.call.message \in DOMAIN avro_routes
    /\ response.handshake.match = "NONE"
    /\ invoked = 0

\* C3: a handshake whose clientHash is not cached and that carries no
\* clientProtocol has outcome NONE and leaves the cache without an entry for
\* that clientHash
C3_UncachedWithoutProtocol ==
    [][(/\ Handled
        /\ request'.body = "frames"
        /\ request'.clientProtocol = <<>>
        /\ request'.clientHash \notin CacheKeys(cache))
       => (/\ avro_handshake'.match = ""
           /\ request'.accept => response'.handshake.match = "NONE"
           /\ request'.clientHash \notin CacheKeys(cache'))]_vars

\* C3 witness: such a request, answered NONE
C3_Witness ==
    /\ request.accept
    /\ request.body = "frames"
    /\ request.clientProtocol = <<>>
    /\ request.clientHash \notin CacheKeys(cache)
    /\ response.handshake.match = "NONE"

\* C5: the compatibility cache never holds more than its maximum of entries
C5_CacheBound == Len(cache) <= MaxEntries

\* C5 witness: a request whose insert went over the maximum and purged entries
C5_Witness == purged # {} /\ request.clientHash \in CacheKeys(cache)

\* C6: the stored protocol hash is md5 of the stored protocol JSON, and a
\* HandshakeResponse that carries a serverHash carries md5 of the
\* serverProtocol it carries
C6_HashOfProtocol ==
    /\ server_protocol.hash = md5(server_protocol.json)
    /\ response.handshake.serverHash # NoHash =>
          response.handshake.serverHash = md5(response.handshake.serverProtocol)

\* C6 witness: a response with a serverHash, after two registrations
C6_Witness ==
    /\ Len(routes) = 2
    /\ response.handshake.serverHash # NoHash
    /\ response.handshake.serverProtocol = server_protocol.json

\* C7: an entry that stays in the cache keeps its value, whatever later
\* requests present under its clientHash
C7_CacheMonotonic ==
    [][\A i \in 1..Len(cache) :
          cache[i].key \in CacheKeys(cache') =>
              cache'[CacheGet(cache', cache[i].key)] = cache[i]]_vars

\* C7 witness: a request resolved from an older entry although it presented
\* a clientProtocol that is not the one of its clientHash
C7_Witness ==
    /\ request.body = "frames"
    /\ request.clientProtocol # <<>>
    /\ md5(request.clientProtocol) # request.clientHash
    /\ avro_handshake.match # ""
    /\ \E i \in 1..(Len(cache) - 1) : cache[i].key = request.clientHash

\* C8: a request whose compatibility check fails (outcome NONE) leaves the
\* cache as it was
C8_FailedCheckLeavesCache ==
    [][(/\ Handled
        /\ request'.body = "frames"
        /\ avro_handshake'.match = "")
       => cache' = cache]_vars

\* C8 witness: a two-message client protocol whose first message passes and
\* whose second message fails
C8_Witness ==
    /\ request.body = "frames"
    /\ request.clientProtocol
          = json(AvroProtocol(8, 8, <<AvroMessage(1, 1, 0), AvroMessage(2, 0, 1)>>))
    /\ request.clientHash \notin CacheKeys(cache)
    /\ 1 \in DOMAIN avro_routes
    /\ avro_routes[1].body_field = 1
    /\ avro_handshake.match = ""

\* C9 (as claimed): a call that names an unregistered message is answered
\* NONE with an Error CallResponse
C9_UnknownMessageIsNone ==
    (/\ request.accept
     /\ request.body = "frames"
     /\ request.call.present
     /\ request.call.message \notin DOMAIN avro_routes)
    => (/\ response.handshake.match = "NONE"
        /\ response.call.present
        /\ response.call.error
        /\ response.call.response.kind = "Error")

\* C10 (as claimed): a valid handshake without a call runs no endpoint and is
\* answered with the handshake frame alone
C10_HandshakeOnly ==
    (/\ request.accept
     /\ Resolved
     /\ ~request.call.present)
    => (/\ invoked = 0
        /\ response.handshake.match \in {"BOTH", "CLIENT"}
        /\ ~response.call.present)

\* the call of the request reached the app with a decoded body: the message
\* is registered with a body field and the entry of the request's clientHash
\* holds a request deserializer for it
Decoded ==
    /\ Resolved
    /\ request.call.present
    /\ request.call.message \in DOMAIN avro_routes
    /\ avro_routes[request.call.message].body_field # 0
    /\ request.call.message \in DOMAIN Entry(request.clientHash).request_deserializers

\* C11: a call whose body decodes but fails the endpoint's validation runs no
\* endpoint; the response keeps the match settled for the request (BOTH or
\* CLIENT) and its CallResponse has error = true and carries ValidationError
C11_ValidationError ==
    (request.accept /\ Decoded /\ request.call.request = "invalid") =>
        /\ invoked = 0
        /\ avro_handshake.match \in {"BOTH", "CLIENT"}
        /\ response.handshake_match = avro_handshake.match
        /\ response.handshake.match # "NONE"
        /\ response.call = CallResponse(TRUE, ValidationError)

\* C11 witness: an invalid body answered CLIENT with ValidationError
C11_Witness ==
    /\ request.accept /\ Decoded /\ request.call.request = "invalid"
    /\ response.handshake.match = "CLIENT"
    /\ response.call.response.kind = "ValidationError"

\* an exception other than AvroDecodeError was raised while the request was
\* served: the handshake or the call payload could not be read, the endpoint
\* raised, or the response had neither a handshake frame nor a model to send
Excepted ==
    \/ request.body = "malformed"
    \/ Decoded /\ request.call.request = "undecodable"
    \/ invoked # 0 /\ request.endpoint = "raises"
    \/ /\ Resolved /\ request.accept /\ request.shortcut
       /\ avro_handshake.match = "BOTH"
       /\ \/ ~request.call.present
          \/ invoked # 0 /\ avro_routes[invoked].response_model = 0

\* C12: an exception raised while an avro/binary request is served (the
\* endpoint's included) does not leave the dispatcher: a response is sent,
\* and it carries Error with status 500 and a reference id drawn for it, as
\* a CallResponse with error = true when the response is avro
C12_ExceptionsAreAnswered ==
    /\ request # NoRequest => response # NoResponse
    /\ (AvroRequest /\ Excepted) =>
          /\ response.call.response = Error(500, "uuid4")
          /\ request.accept => response.call = CallResponse(TRUE, Error(500, "uuid4"))
    /\ response.call.response.refid # "" => Excepted

\* C12 witness: the endpoint was run and raised
C12_Witness ==
    /\ request.accept
    /\ invoked # 0 /\ request.endpoint = "raises"
    /\ response.call.error

\* C13: every response encoded as avro/binary has HTTP status 200, the NONE
\* and the error responses included; a handshake that fails is reported by
\* the status 400 of the Error record
C13_AvroStatus200 ==
    /\ response.content_type = "avro/binary" => response.status = 200
    /\ (request.accept /\ response.handshake.match = "NONE" /\ request.body # "malformed")
          => response.call.response = Error(400, "")

\* C13 witness: a NONE answer with status 200 and Error 400
C13_Witness ==
    /\ response.content_type = "avro/binary"
    /\ response.handshake.match = "NONE"
    /\ response.status = 200
    /\ response.call.response.status = 400

\* C14 (as claimed): registering a route under a unique_id that is already
\* registered leaves one entry for that id, and the entry is still the route
\* registered first
C14_IdempotentRegistration ==
    [][\A id \in DOMAIN avro_routes :
          (Len(routes') = Len(routes) + 1 /\ routes'[Len(routes')].unique_id = id)
          => (/\ DOMAIN avro_routes' = DOMAIN avro_routes
              /\ avro_routes'[id] = avro_routes[id])]_vars

\* C4 (as claimed): whatever the gateway's state and the router's cache, one
\* of the first two consecutive gateway calls is answered BOTH, and every
\* call after a call answered BOTH is answered BOTH
C4_HandshakeConvergence ==
    (/\ gateway.message_name = GatewayRoute.unique_id
     /\ gateway.request_model = 0
     /\ gateway.attempts = Attempts
     /\ \A i \in 1..Len(calls) : calls[i].transport = "ok")
    =>
    /\ Len(calls) >= 2 => \E i \in 1..2 : calls[i].match = "BOTH"
    /\ \A i, j \in 1..Len(calls) :
          (i < j /\ calls[i].match = "BOTH") => calls[j].match = "BOTH"


\* the match a gateway has last read before its call i: that of the latest
\* earlier call that read one, else the status it started the calls with
LastMatch(i) ==
    LET read == { j \in 1..(i - 1) : calls[j].match # "" }
    IN IF read = {} THEN calls[1].before.handshake_status
       ELSE calls[CHOOSE j \in read : \A k \in read : k <= j].match

(* C15: the first call of a gateway sends its full client protocol and the
   sentinel server hash (sixteen bytes 0x30); a later call leaves the client
   protocol out exactly when the match the gateway last read was BOTH. *)
C15_ClientProtocolSent ==
    \A i \in 1..Len(calls) :
       calls[i].requests # <<>> =>
          LET sent == calls[i].requests[1]
              before == calls[i].before
          IN /\ (before.handshake_status = "" /\ before.server_hash = SentinelHash) =>
                   /\ sent.clientProtocol = json(before.client_protocol)
                   /\ sent.clientProtocol # <<>>
                   /\ sent.serverHash = SentinelHash
             /\ sent.clientHash = md5(json(before.client_protocol))
             /\ sent.clientProtocol \in {<<>>, json(before.client_protocol)}
             /\ sent.clientProtocol = <<>> <=> LastMatch(i) = "BOTH"

C15_Witness ==
    /\ Len(calls) >= 3
    /\ calls[1].before.handshake_status = ""
    /\ calls[1].before.server_hash = SentinelHash
    /\ calls[1].requests # <<>>
    /\ calls[1].match = "CLIENT"
    /\ calls[2].requests[1].clientProtocol # <<>>
    /\ calls[2].match = "BOTH"
    /\ calls[3].requests # <<>>
    /\ calls[3].requests[1].clientProtocol = <<>>

\* the number of NONE answers among the matches ms
RECURSIVE Nones(_)
Nones(ms) ==
    IF ms = <<>> THEN 0 ELSE (IF ms[1] = "NONE" THEN 1 ELSE 0) + Nones(Tail(ms))

(* C16 (as claimed): within one gateway call a NONE answer is retried at most
   once: a first NONE read while a match was stored is followed by a second
   request that carries the full client protocol, and a second NONE, or a
   NONE read while no match was stored, ends the call with the
   incompatible-protocols error. *)
C16_NoneRetriedOnce ==
    \A i \in 1..Len(calls) :
       LET call == calls[i]
       IN /\ Nones(call.matches) <= 2
          /\ \A k \in 1..Len(call.matches) :
                call.matches[k] = "NONE" =>
                   IF k = 1 /\ call.before.handshake_status # ""
                   THEN /\ Len(call.requests) >= 2
                        /\ call.requests[2] =
                              [call.requests[1] EXCEPT
                                  !.clientProtocol = json(call.before.client_protocol)]
                   ELSE /\ k = Len(call.matches)
                        /\ call.outcome = "ValueError: protocols are incompatible!"

(* C17 (as claimed): when every attempt of a gateway call fails with a
   transport error, the gateway sleeps backoff(attempt) after each failed
   attempt, sends at most `attempts` requests and then raises; and no call
   returns normally without a decoded response. *)
C17_TransportErrorsBackOff ==
    \A i \in 1..Len(calls) :
       LET call == calls[i]
       IN /\ call.transport # "ok" =>
                /\ Len(call.requests) <= call.before.attempts
                /\ call.slept = [k \in 1..Len(call.requests) |-> backoff(k)]
                /\ call.outcome \notin {"returned", "None"}
          /\ call.outcome # "None"

\* the gateway as its call i left it
After(i) == IF i < Len(calls) THEN calls[i + 1].before ELSE gateway

(* C18 (as claimed): a gateway that reads match = CLIENT stores the server
   hash of the response and rebuilds its response reader with the server's
   response schema as writer schema and its own response model as reader
   schema; its next call sends the server hash it learned. *)
C18_ClientMatchLearnsServer ==
    \A i \in 1..Len(calls) :
       calls[i].match = "CLIENT" =>
          /\ After(i).server_hash = server_protocol.hash
          /\ After(i).deserializer =
                [read_model |-> calls[i].before.response_model,
                 read_schema |-> calls[i].before.response_model,
                 write_schema |-> avro_routes[calls[i].before.message_name].response_model]
          /\ (i < Len(calls) /\ calls[i + 1].requests # <<>>) =>
                calls[i + 1].requests[1].serverHash = server_protocol.hash

(* C19 (as claimed): a gateway constructed with a request model and called
   with a body sends a CallRequest whose request bytes are the serialization
   of that body; a gateway constructed without a request model sends a
   CallRequest whose request bytes are empty. *)
C19_CallRequestBytes ==
    \A i \in 1..Len(calls) :
       LET call == calls[i]
       IN IF call.before.request_model # 0
          THEN /\ call.call_request # <<>>
               /\ call.call_request[1].request = "serialized"
          ELSE call.call_request # <<>> => call.call_request[1].request = ""

\* the request being served has another content type than avro/binary, and
\* the route the host router runs for it
JsonRequest == request.body = "json"
JsonRoute ==
    routes[CHOOSE k \in 1..Len(routes) :
              /\ routes[k].unique_id = request.call.message
              /\ \A j \in 1..(k - 1) : routes[j].unique_id # request.call.message]

(* C20 (as claimed): a request whose content type is not avro/binary goes to
   the host router untouched (no handshake, cache unchanged), and a client
   that does not accept avro/binary gets the JSON encoding of the response
   model with status 200. *)
C20_JsonStatus200 ==
    (JsonRequest /\ ~request.accept /\ invoked # 0 /\ request.endpoint = "returns") =>
       /\ avro_handshake = NoHandshake
       /\ response.content_type = "application/json"
       /\ response.handshake = NoHandshake
       /\ response.call.response =
             (IF JsonRoute.response_model # 0 THEN ResponseModel ELSE NoModel)
       /\ response.status = 200

(* C20 (amended): a request whose content type is not avro/binary goes to the
   host router untouched: the cache is unchanged and no handshake is settled;
   the route registered first for the path is run, and a client that does not
   accept avro/binary gets the JSON encoding of the response model with the
   status code of that route, which is 200 unless the route declares
   another. *)
C20_JsonForwarded ==
    [][(Handled /\ request'.body = "json") =>
          /\ cache' = cache
          /\ avro_handshake' = NoHandshake
          /\ purged' = {}
          /\ (~request'.accept /\ invoked' # 0 /\ request'.endpoint = "returns") =>
                \E k \in 1..Len(routes) :
                   /\ routes[k].unique_id = request'.call.message
                   /\ \A j \in 1..(k - 1) : routes[j].unique_id # request'.call.message
                   /\ invoked' = routes[k].unique_id
                   /\ response'.content_type = "application/json"
                   /\ response'.handshake = NoHandshake
                   /\ response'.call.response =
                         (IF routes[k].response_model # 0 THEN ResponseModel ELSE NoModel)
                   /\ response'.status = routes[k].status_code]_vars

\* C20 witness: with a handshake cached, a JSON request was served by a route
\* that declares status 201
C20_Witness ==
    /\ JsonRequest /\ ~request.accept
    /\ cache # <<>>
    /\ invoked # 0
    /\ JsonRoute.status_code = 201
    /\ response.status = 201
    /\ response.call.response = ResponseModel

----------------------------------------------------------------------------
(* AvroMessage taken alone *)

\* the schemas a message is constructed with: 0 is no request / the null
\* response
Schemas == 0..3

\* the arguments of AvroMessage(...): oneWay is left out (None) or passed
MessageArgs ==
    [id : MessageIds, request : Schemas, response : Schemas,
     oneWay : {"None", "False", "True"}]

\* a router without routes, and the arguments of a message to construct
MessageInit ==
    /\ routes = <<>>
    /\ avro_routes = <<>>
    /\ server_protocol = AvroRouter_init
    /\ cache = <<>>
    /\ request = NoRequest
    /\ avro_handshake = NoHandshake
    /\ invoked = 0
    /\ purged = {}
    /\ response = NoResponse
    /\ gateway = NoGateway
    /\ calls = <<>>
    /\ serialization = NoSerialization
    /\ tasks = <<>>
    /\ framing = NoFraming
    /\ generation = NoGeneration
    /\ \E args \in MessageArgs : avro_message = [args |-> <<args>>, constructed |-> <<>>]

\* AvroMessage.__init__ with its validators (handshake.py:37-74)
ConstructMessage ==
    /\ avro_message.args # <<>>
    /\ avro_message.constructed = <<>>
    /\ \E args \in {avro_message.args[1]} :
          avro_message' =
             [avro_message EXCEPT !.constructed =
                 <<AvroMessage_oneWay(args.id, args.request, args.response, args.oneWay)>>]
    /\ UNCHANGED <<routes, avro_routes, server_protocol, cache, request, avro_handshake,
                   invoked, purged, response, gateway, calls, serialization, tasks, framing, generation>>

MessageNext == ConstructMessage \/ add_api_route

MessageSpec == MessageInit /\ [][MessageNext]_vars

\* the messages of the server protocol, as AvroProtocol.parse_raw reads them
ServerMessages ==
    LET messages == parse_raw(server_protocol.json).messages
    IN { messages[i] : i \in 1..Len(messages) }

(* C21 (as claimed): in every AvroMessage that is constructed, whatever is
   passed for oneWay, oneWay is true if and only if the response is null; a
   server protocol message of a route without response model has the null
   response and oneWay true, one of a route with a response model has oneWay
   false. *)
C21_OneWayIffNull ==
    /\ \A i \in 1..Len(avro_message.constructed) :
          avro_message.constructed[i].oneWay <=> avro_message.constructed[i].response = 0
    /\ \A m \in ServerMessages :
          /\ m.id \in DOMAIN avro_routes
          /\ m.response = avro_routes[m.id].response_model
          /\ m.oneWay <=> avro_routes[m.id].response_model = 0

----------------------------------------------------------------------------
(* AvroSerializer and AvroDeserializer taken alone *)

\* A python value is [t, v]: its type and, as a sequence of numbers, its
\* content (int: the number; str: its characters; bool: 0 or 1; NoneType:
\* nothing; Decimal: unscaled digits and exponent; a member of an Enum or an
\* IntEnum: its position in the class; list: its int items)
Value(t, v) == [t |-> t, v |-> v]

\* the digits after the point of the condecimal field of the model
Scale == 2

\* class Enum: the values of its members, in definition order
EnumValues == <<101, 102>>

\* class IntEnum: the names of the members of a class and their values, in
\* definition order.  Color counts from 0, Level from 1
IntEnums == {"Color", "Level"}
IntEnumNames(class) == IF class = "Color" THEN <<201, 202>> ELSE <<211, 212>>
IntEnumValues(class) == IF class = "Color" THEN <<0, 1>> ELSE <<1, 2>>

\* an avro schema: its type, the schemas of its branches or items, its
\* symbols, and the IntEnum class it was converted from ("" for none)
AvroSchema(type, items, symbols, class) ==
    [type |-> type, items |-> items, symbols |-> symbols, class |-> class]
Primitive(type) == AvroSchema(type, <<>>, <<>>, "")

\* the field annotations of the model
Annotations ==
    {"int", "str", "bool", "Optional[int]", "Union[int, str]", "condecimal", "Enum",
     "List[int]"} \cup IntEnums

\* AvroSchemaGenerator._get_type (schema.py:287-373) for a field annotation
convert_schema(annotation) ==
    CASE annotation = "int" -> Primitive("long")
      [] annotation = "str" -> Primitive("string")
      [] annotation = "bool" -> Primitive("boolean")
      \* schema.py:178-182: null is moved to the front
      [] annotation = "Optional[int]" ->
            AvroSchema("union", <<Primitive("null"), Primitive("long")>>, <<>>, "")
      [] annotation = "Union[int, str]" ->
            AvroSchema("union", <<Primitive("long"), Primitive("string")>>, <<>>, "")
      [] annotation = "condecimal" -> Primitive("decimal")
      \* _convert_enum: the symbols are the members' values
      [] annotation = "Enum" -> AvroSchema("enum", <<>>, EnumValues, "")
      [] annotation = "List[int]" -> AvroSchema("array", <<Primitive("long")>>, <<>>, "")
      \* _convert_int_enum: the symbols are the members' names
      [] OTHER -> AvroSchema("enum", <<>>, IntEnumNames(annotation), annotation)

\* the valid instances of a field annotation
Instances(annotation) ==
    CASE annotation = "int" -> {Value("int", <<n>>) : n \in {-1, 0, 1}}
      [] annotation = "str" -> {Value("str", <<>>), Value("str", <<97>>)}
      [] annotation = "bool" -> {Value("bool", <<0>>), Value("bool", <<1>>)}
      [] annotation = "Optional[int]" -> {Value("NoneType", <<>>), Value("int", <<1>>)}
      [] annotation = "Union[int, str]" -> {Value("int", <<1>>), Value("str", <<97>>)}
      \* Decimal('12.34'), Decimal('1.00'), Decimal('12.3')
      [] annotation = "condecimal" ->
            {Value("Decimal", <<1234, -2>>), Value("Decimal", <<100, -2>>),
             Value("Decimal", <<123, -1>>)}
      [] annotation = "Enum" -> {Value("Enum", <<1>>), Value("Enum", <<2>>)}
      [] annotation = "List[int]" ->
            {Value("list", <<>>), Value("list", <<1>>), Value("list", <<1, 0>>)}
      [] OTHER -> {Value(annotation, <<1>>), Value(annotation, <<2>>)}

\* BinaryEncoder.write_long: the zig-zag number of a long, and its inverse
zigzag(n) == IF n >= 0 THEN 2 * n ELSE -2 * n - 1
unzigzag(z) == IF z % 2 = 0 THEN z \div 2 ELSE -((z + 1) \div 2)

\* what went wrong in a writer or a reader
Raised(exception) == [raised |-> exception, bytes |-> <<>>, datum |-> Value("", <<>>), rest |-> <<>>]
Written(bytes) == [raised |-> "", bytes |-> bytes, datum |-> Value("", <<>>), rest |-> <<>>]
Read(datum, rest) == [raised |-> "", bytes |-> <<>>, datum |-> datum, rest |-> rest]

\* position of x in the sequence seq (0: not in it)
Index(seq, x) ==
    IF \E i \in 1..Len(seq) : seq[i] = x
    THEN CHOOSE i \in 1..Len(seq) : seq[i] = x /\ \A j \in 1..(i - 1) : seq[j] # x
    ELSE 0

\* ABetterDatumWriter._writer_type_*_ for the schemas without items
\* (serialization.py:67-241)
write_primitive(schema, datum) ==
    CASE schema.type = "null" ->
            IF datum.t = "NoneType" THEN Written(<<>>) ELSE Raised("AvroTypeException")
      [] schema.type = "boolean" ->
            IF datum.t = "bool" THEN Written(datum.v) ELSE Raised("AvroTypeException")
      [] schema.type = "string" ->
            IF datum.t = "str" THEN Written(<<zigzag(Len(datum.v))>> \o datum.v)
            ELSE Raised("AvroTypeException")
      [] schema.type = "long" ->
            IF datum.t = "int" THEN Written(<<zigzag(datum.v[1])>>)
            ELSE Raised("AvroTypeException")
      \* _writer_type_bytes_ with logicalType decimal: same_quantum or raise
      [] schema.type = "decimal" ->
            IF datum.t # "Decimal" \/ datum.v[2] # -Scale THEN Raised("AvroTypeException")
            ELSE Written(<<zigzag(1), datum.v[1]>>)
      \* _writer_type_enum_: an IntEnum is written by write_int_enum, which
      \* writes the member's value; an Enum by write_enum, which writes the
      \* position of the member's value among the symbols
      [] schema.type = "enum" ->
            IF datum.t \in IntEnums
            THEN Written(<<zigzag(IntEnumValues(datum.t)[datum.v[1]])>>)
            ELSE IF datum.t = "Enum"
            THEN Written(<<zigzag(Index(schema.symbols, EnumValues[datum.v[1]]) - 1)>>)
            ELSE Raised("AvroTypeException")

\* avro's validate, by which DatumWriter.write_union chooses the branch
validate(schema, datum) ==
    \/ schema.type = "null" /\ datum.t = "NoneType"
    \/ schema.type = "long" /\ datum.t = "int"
    \/ schema.type = "string" /\ datum.t = "str"

RECURSIVE write_longs(_)
write_longs(items) ==
    IF items = <<>> THEN <<>> ELSE <<zigzag(Head(items))>> \o write_longs(Tail(items))

\* ABetterDatumWriter.write_data (serialization.py:244-255)
write_data(schema, datum) ==
    CASE schema.type = "union" ->
            LET valid == { i \in 1..Len(schema.items) : validate(schema.items[i], datum) }
            IN IF valid = {} THEN Raised("AvroTypeException")
               ELSE LET branch == CHOOSE i \in valid : \A j \in valid : i <= j
                        written == write_primitive(schema.items[branch], datum)
                    IN IF written.raised # "" THEN written
                       ELSE Written(<<zigzag(branch - 1)>> \o written.bytes)
      [] schema.type = "array" ->
            IF datum.t # "list" THEN Raised("AvroTypeException")
            ELSE IF datum.v = <<>> THEN Written(<<zigzag(0)>>)
            ELSE Written(<<zigzag(Len(datum.v))>> \o write_longs(datum.v) \o <<zigzag(0)>>)
      [] OTHER -> write_primitive(schema, datum)

\* DatumReader.read_data for the schemas without items
read_primitive(schema, bytes) ==
    CASE schema.type = "null" -> Read(Value("NoneType", <<>>), bytes)
      [] bytes = <<>> -> Raised("EOFError")
      [] schema.type = "boolean" -> Read(Value("bool", <<bytes[1]>>), Tail(bytes))
      [] schema.type = "long" -> Read(Value("int", <<unzigzag(bytes[1])>>), Tail(bytes))
      [] schema.type = "string" ->
            LET length == unzigzag(bytes[1])
            IN IF length < 0 \/ Len(bytes) < 1 + length THEN Raised("EOFError")
               ELSE Read(Value("str", SubSeq(bytes, 2, 1 + length)),
                         SubSeq(bytes, 2 + length, Len(bytes)))
      [] schema.type = "decimal" ->
            IF Len(bytes) < 2 THEN Raised("EOFError")
            ELSE Read(Value("Decimal", <<bytes[2], -Scale>>), SubSeq(bytes, 3, Len(bytes)))
      \* read_enum: the symbol at the position read
      [] schema.type = "enum" ->
            LET index == unzigzag(bytes[1])
            IN IF index < 0 \/ index >= Len(schema.symbols)
               THEN Raised("SchemaResolutionException")
               ELSE Read(Value("str", <<schema.symbols[index + 1]>>), Tail(bytes))

RECURSIVE read_longs(_, _, _)
read_longs(count, bytes, items) ==
    IF count = 0 THEN Read(Value("list", items), bytes)
    ELSE IF bytes = <<>> THEN Raised("EOFError")
    ELSE read_longs(count - 1, Tail(bytes), Append(items, unzigzag(bytes[1])))

\* DatumReader.read_data with the writer's schema as reader's schema
read_data(schema, bytes) ==
    CASE bytes = <<>> /\ schema.type \in {"union", "array"} -> Raised("EOFError")
      [] schema.type = "union" ->
            LET index == unzigzag(bytes[1])
            IN IF index < 0 \/ index >= Len(schema.items)
               THEN Raised("SchemaResolutionException")
               ELSE read_primitive(schema.items[index + 1], Tail(bytes))
      [] schema.type = "array" ->
            LET count == unzigzag(bytes[1])
            IN IF count = 0 THEN Read(Value("list", <<>>), Tail(bytes))
               ELSE IF count < 0 THEN Raised("EOFError")
               ELSE LET items == read_longs(count, Tail(bytes), <<>>)
                    IN IF items.raised # "" \/ items.rest = <<>> THEN Raised("EOFError")
                       ELSE Read(items.datum, Tail(items.rest))
      [] OTHER -> read_primitive(schema, bytes)

\* pydantic.parse_obj_as for a field: the symbol read for an Enum is the
\* value of a member, the symbol read for an IntEnum is taken as the name of
\* a member
parse_obj_as(annotation, datum) ==
    CASE annotation = "Enum" -> Value("Enum", <<Index(EnumValues, datum.v[1])>>)
      [] annotation \in IntEnums ->
            Value(annotation, <<Index(IntEnumNames(annotation), datum.v[1])>>)
      [] OTHER -> datum

\* AvroSerializer(T)(x) for a model T with the fields A and B
\* (serialization.py:269-294): the fields are written one after the other
AvroSerializer(model, x) ==
    LET A == write_data(convert_schema(model[1]), x[1])
        B == write_data(convert_schema(model[2]), x[2])
    IN IF A.raised # "" THEN A ELSE IF B.raised # "" THEN B
       ELSE Written(A.bytes \o B.bytes)

\* AvroDeserializer(T)(bytes) (serialization.py:297-345): the fields are read
\* one after the other and parsed into T
AvroDeserializer(model, bytes) ==
    LET A == read_data(convert_schema(model[1]), bytes)
    IN IF A.raised # "" THEN [raised |-> A.raised, x |-> <<>>]
       ELSE LET B == read_data(convert_schema(model[2]), A.rest)
            IN IF B.raised # "" THEN [raised |-> B.raised, x |-> <<>>]
               ELSE [raised |-> "",
                     x |-> <<parse_obj_as(model[1], A.datum), parse_obj_as(model[2], B.datum)>>]

\* the models T of the round trip, their fields A and B annotated in any way,
\* and the valid instances of a model
Models == Annotations \X Annotations
ValidInstances(model) == Instances(model[1]) \X Instances(model[2])

\* an instance x of a model T before it is serialized
SerializationInit ==
    /\ routes = <<>>
    /\ avro_routes = <<>>
    /\ server_protocol = AvroRouter_init
    /\ cache = <<>>
    /\ request = NoRequest
    /\ avro_handshake = NoHandshake
    /\ invoked = 0
    /\ purged = {}
    /\ response = NoResponse
    /\ gateway = NoGateway
    /\ calls = <<>>
    /\ avro_message = NoMessage
    /\ tasks = <<>>
    /\ framing = NoFraming
    /\ generation = NoGeneration
    /\ \E model \in Models : \E x \in ValidInstances(model) :
          serialization = [model |-> model, x |-> x, phase |-> "instance",
                           bytes |-> <<>>, result |-> <<>>, raised |-> ""]

\* AvroSerializer(T)(x)
Serialize ==
    /\ serialization.phase = "instance"
    /\ \E written \in {AvroSerializer(serialization.model, serialization.x)} :
          serialization' =
             [serialization EXCEPT !.phase = IF written.raised # "" THEN "raised"
                                             ELSE "serialized",
                                   !.bytes = written.bytes,
                                   !.raised = written.raised]
    /\ UNCHANGED <<routes, avro_routes, server_protocol, cache, request, avro_handshake,
                   invoked, purged, response, gateway, calls, avro_message, tasks, framing,
                   generation>>

\* AvroDeserializer(T)(bytes)
Deserialize ==
    /\ serialization.phase = "serialized"
    /\ \E read \in {AvroDeserializer(serialization.model, serialization.bytes)} :
          serialization' =
             [serialization EXCEPT !.phase = IF read.raised # "" THEN "raised"
                                             ELSE "deserialized",
                                   !.result = read.x,
                                   !.raised = read.raised]
    /\ UNCHANGED <<routes, avro_routes, server_protocol, cache, request, avro_handshake,
                   invoked, purged, response, gateway, calls, avro_message, tasks, framing,
                   generation>>

SerializationNext == Serialize \/ Deserialize

SerializationSpec == SerializationInit /\ [][SerializationNext]_vars

(* C22 (as claimed): for every model T and every valid instance x of T, the
   serializer of T writes x and the deserializer of T reads from these bytes
   a value equal to x, the branch of a union field included. *)
C22_RoundTrip ==
    /\ serialization.phase # "raised"
    /\ serialization.phase = "deserialized" => serialization.result = serialization.x
----------------------------------------------------------------------------
(* Properties of the compatibility check *)

\* a message of a client protocol that the routes of table cannot serve: its
\* id is not registered, it declares a request where the route has no body,
\* it declares none where the route has one, or the route's body schema
\* cannot read its request schema
Unservable(table, client_message) ==
    \/ client_message.id \notin DOMAIN table
    \/ /\ client_message.id \in DOMAIN table
       /\ \/ client_message.request # 0 /\ table[client_message.id].body_field = 0
          \/ client_message.request = 0 /\ table[client_message.id].body_field # 0
          \/ /\ client_message.request # 0
             /\ table[client_message.id].body_field # 0
             /\ ~Compatible(table[client_message.id].body_field, client_message.request)

\* the messages of the client protocol a request supplies
Supplied(req) == parse_raw(req.clientProtocol).messages

\* C23: a request whose clientHash is not cached and whose clientProtocol
\* holds a message the routes cannot serve is answered NONE with an Error
\* call response, whatever message its call names; no handshake is settled,
\* no endpoint runs and the cache is left as it was
C23_UnservableProtocolIsNone ==
    [][(/\ Handled
        /\ request'.body = "frames"
        /\ request'.clientHash \notin CacheKeys(cache)
        /\ request'.clientProtocol # <<>>
        /\ \E i \in 1..Len(Supplied(request')) : Unservable(avro_routes, Supplied(request')[i]))
       => (/\ cache' = cache
           /\ avro_handshake' = NoHandshake
           /\ invoked' = 0
           /\ request'.accept =>
                 /\ response'.handshake.match = "NONE"
                 /\ response'.call.present
                 /\ response'.call.error
                 /\ response'.call.response = Error(400, ""))]_vars

\* a protocol whose first message the routes serve and whose second they do
\* not was supplied with a call of the first message, and was answered NONE
C23_Witness ==
    /\ request # NoRequest
    /\ request.body = "frames"
    /\ request.accept
    /\ request.clientProtocol # <<>>
    /\ request.clientHash \notin CacheKeys(cache)
    /\ Len(Supplied(request)) = 2
    /\ ~Unservable(avro_routes, Supplied(request)[1])
    /\ Unservable(avro_routes, Supplied(request)[2])
    /\ request.call.present
    /\ request.call.message = Supplied(request)[1].id
    /\ request.call.request = "valid"
    /\ response.handshake.match = "NONE"
    /\ invoked = 0

\* a protocol whose request schema the route's body schema cannot read was
\* supplied and was answered NONE
C23_WitnessIncompatible ==
    /\ request # NoRequest
    /\ request.body = "frames"
    /\ request.accept
    /\ request.clientProtocol # <<>>
    /\ \E i \in 1..Len(Supplied(request)) :
          /\ Supplied(request)[i].id \in DOMAIN avro_routes
          /\ avro_routes[Supplied(request)[i].id].body_field # 0
          /\ Supplied(request)[i].request # 0
          /\ ~Compatible(avro_routes[Supplied(request)[i].id].body_field,
                         Supplied(request)[i].request)
    /\ response.handshake.match = "NONE"

\* a message of a client protocol whose response the route of table cannot
\* satisfy: the route has a response model, and the message expects no
\* response or one whose schema cannot read the route's
Unanswerable(table, client_message) ==
    /\ client_message.id \in DOMAIN table
    /\ table[client_message.id].response_model # 0
    /\ \/ client_message.response = 0
       \/ ~Compatible(client_message.response, table[client_message.id].response_model)

\* C28: the clientCompatible flag stored for a client protocol is false
\* exactly when one of its messages is unanswerable (a message that expects
\* a response from a route without response model does not count), and a
\* request whose clientHash has an entry with a false flag is answered
\* CLIENT with the server's protocol and hash, whatever its serverHash and
\* whatever message it calls
C28_IncompatibleClientIsClient ==
    [][Handled /\ request'.body = "frames" /\ request'.clientHash \in CacheKeys(cache')
       => LET entry == cache'[CacheGet(cache', request'.clientHash)]
          IN /\ request'.clientHash \notin CacheKeys(cache)
                => (entry.client_compatible
                    <=> ~\E i \in 1..Len(Supplied(request')) :
                           Unanswerable(avro_routes, Supplied(request')[i]))
             /\ ~entry.client_compatible
                => /\ avro_handshake'.match = "CLIENT"
                   /\ request'.accept
                      => response'.handshake =
                            HandshakeResponse("CLIENT", server_protocol.json,
                                              server_protocol.hash)]_vars

\* a protocol whose message expects no response from a route that has a
\* response model was stored with a false flag, and its request, which
\* carried the server's hash and called the message, was answered CLIENT
C28_Witness ==
    /\ request # NoRequest
    /\ request.body = "frames"
    /\ request.accept
    /\ request.clientProtocol # <<>>
    /\ request.clientHash = md5(request.clientProtocol)
    /\ request.clientHash \in CacheKeys(cache)
    /\ ~Entry(request.clientHash).client_compatible
    /\ \E i \in 1..Len(Supplied(request)) :
          /\ Supplied(request)[i].response = 0
          /\ Unanswerable(avro_routes, Supplied(request)[i])
          /\ request.call.present
          /\ request.call.message = Supplied(request)[i].id
    /\ request.serverHash = server_protocol.hash
    /\ invoked # 0
    /\ response.handshake.match = "CLIENT"

\* a protocol whose message expects a response from a route without
\* response model was stored with a true flag by a router with that route
\* alone
C28_WitnessNoRouteResponse ==
    /\ request # NoRequest
    /\ Len(routes) = 1
    /\ request.body = "frames"
    /\ request.clientProtocol # <<>>
    /\ request.clientHash = md5(request.clientProtocol)
    /\ request.clientHash \in CacheKeys(cache)
    /\ Entry(request.clientHash).client_compatible
    /\ \E i \in 1..Len(Supplied(request)) :
          /\ Supplied(request)[i].response # 0
          /\ Supplied(request)[i].id \in DOMAIN avro_routes
          /\ avro_routes[Supplied(request)[i].id].response_model = 0

\* C24 (as claimed): an insert that brings the cache over MaxEntries evicts
\* only the oldest entries in excess: the cache then holds MaxEntries
\* entries, which are the newest of the old ones followed by the new one
C24_EvictsOldestInExcess ==
    [][(/\ Handled
        /\ request'.body = "frames"
        /\ request'.clientHash \notin CacheKeys(cache)
        /\ request'.clientHash \in CacheKeys(cache')
        /\ Len(cache) = MaxEntries)
       => (/\ Len(cache') = MaxEntries
           /\ cache'[MaxEntries].key = request'.clientHash
           /\ SubSeq(cache', 1, MaxEntries - 1) = SubSeq(cache, 2, MaxEntries)
           /\ purged' = {cache[1].key})]_vars

\* C25 (as claimed): the key of every cache entry is the MD5 of the client
\* protocol text the entry was computed from: no request stores an entry
\* under a clientHash that is not the MD5 of its clientProtocol
C25_KeyIsHashOfProtocol ==
    [][(/\ Handled
        /\ request'.body = "frames"
        /\ request'.clientHash \notin CacheKeys(cache)
        /\ request'.clientHash \in CacheKeys(cache'))
       => request'.clientHash = md5(request'.clientProtocol)]_vars

----------------------------------------------------------------------------
(* Requests handled at once.  A request is a task of the event loop: it
   runs until it awaits.  settle_avro_handshake awaits request.body()
   (routing.py:654) and check_schema_compatibility awaits the cache lock
   (routing.py:643) once its insert has brought the cache over its size:
   other tasks may run at both points.  Nothing between the lookup at 555
   and the size test at 641 awaits, and nothing between the acquisition of
   the lock and its release does, so a task that holds the lock deletes its
   keys and releases the lock in one step. *)

\* how many requests are handled at once
MaxTasks == 3

\* client protocols of the requests handled at once, in the order in which
\* earlier requests presented them
ConcurrentProtocols ==
    << Gateway_client_protocol(1, 0, 1),
       AvroProtocol(8, 8, <<AvroMessage(1, 0, 3)>>),
       AvroProtocol(8, 8, <<AvroMessage(2, 0, 0)>>),
       AvroProtocol(8, 8, <<AvroMessage(2, 0, 1)>>),
       AvroProtocol(8, 8, <<AvroMessage(1, 1, 0), AvroMessage(2, 0, 1)>>) >>

\* a request that carries only a handshake: the hash of a protocol, with the
\* protocol's text or without it
HandshakeOnly(sp, protocol, sent) ==
    [accept |-> TRUE, shortcut |-> FALSE, body |-> "frames",
     clientHash |-> md5(json(protocol)),
     clientProtocol |-> IF sent THEN json(protocol) ELSE <<>>,
     serverHash |-> sp.hash, call |-> NoCallRequest, endpoint |-> "returns", path |-> 0]

ConcurrentRequests(sp) ==
    { HandshakeOnly(sp, ConcurrentProtocols[i], TRUE) : i \in 1..Len(ConcurrentProtocols) }
    \cup { HandshakeOnly(sp, ConcurrentProtocols[1], FALSE) }

\* the routes of the router that handles them
ConcurrentRoutes == <<AvroRoute(1, 0, 1), AvroRoute(2, 0, 1)>>

\* the cache after the first n of the protocols were presented one after the
\* other
RECURSIVE PriorCache(_, _, _)
PriorCache(table, sp, n) ==
    IF n = 0 THEN <<>>
    ELSE check_schema_compatibility(PriorCache(table, sp, n - 1), table,
                                    HandshakeOnly(sp, ConcurrentProtocols[n], TRUE)).cache

\* routing.py:555-641: check_schema_compatibility up to its size test.
\* over: the insert brought the cache over its size
check_and_insert(c, table, handshake) ==
    IF handshake.clientHash \in CacheKeys(c)
    THEN [raised |-> FALSE, hit |-> TRUE, cache |-> c, over |-> FALSE,
          data |-> c[CacheGet(c, handshake.clientHash)]]
    ELSE IF handshake.clientProtocol = <<>>
    THEN [raised |-> TRUE, hit |-> FALSE, cache |-> c, over |-> FALSE, data |-> <<>>]
    ELSE CHOOSE result \in
            { IF e.raised
              THEN [raised |-> TRUE, hit |-> FALSE, cache |-> c, over |-> FALSE, data |-> <<>>]
              ELSE [raised |-> FALSE, hit |-> FALSE, cache |-> Append(c, e.data),
                    over |-> Len(c) + 1 > MaxEntries, data |-> e.data] :
              e \in {ComputeEntry(table, handshake)} } : TRUE

\* an eviction that deletes every key
doomed_keys_all(c) == CacheKeys(c)

\* routing.py:645: the keys the loop under the lock deletes, taken from the
\* cache as it is when the lock is held
doomed_keys(c) ==
    LET doomed == SliceFrom(Reversed(c), Len(c) - MaxEntries)
    IN {doomed[i].key : i \in 1..Len(doomed)}

\* a task: where it is (pc), its request, whether its lookup hit, the
\* handshake match it answers ("" until it has settled) and the keys it
\* deleted
NoTask == [pc |-> "idle", request |-> NoRequest, hit |-> FALSE, match |-> "", evicted |-> {}]

\* the handshake a task answers (routing.py:677-690, 749-771)
task_match(sp, req, checked) ==
    IF checked.raised THEN "NONE"
    ELSE handshake_response(sp, req.serverHash, checked.data.client_compatible).match

ConcurrentInit ==
    /\ routes = ConcurrentRoutes
    /\ avro_routes = add_avro_route(add_avro_route(<<>>, ConcurrentRoutes[1]), ConcurrentRoutes[2])
    /\ server_protocol =
          add_server_protocol(add_server_protocol(AvroRouter_init, <<ConcurrentRoutes[1]>>,
                                                  ConcurrentRoutes[1]),
                              ConcurrentRoutes, ConcurrentRoutes[2])
    /\ \E n \in 0..MaxEntries : cache = PriorCache(avro_routes, server_protocol, n)
    /\ request = NoRequest
    /\ avro_handshake = NoHandshake
    /\ invoked = 0
    /\ purged = {}
    /\ response = NoResponse
    /\ gateway = NoGateway
    /\ calls = <<>>
    /\ avro_message = NoMessage
    /\ serialization = NoSerialization
    /\ framing = NoFraming
    /\ generation = NoGeneration
    /\ tasks = [t \in 1..MaxTasks |-> NoTask]

\* AvroRouter.__call__ starts on a request and awaits its body
\* (routing.py:727-740, 654)
Arrive(t) ==
    /\ tasks[t].pc = "idle"
    /\ t > 1 => tasks[t - 1].pc # "idle"
    /\ \E req \in ConcurrentRequests(server_protocol) :
          tasks' = [tasks EXCEPT ![t] = [NoTask EXCEPT !.pc = "body", !.request = req]]
    /\ UNCHANGED <<routes, avro_routes, server_protocol, cache, request, avro_handshake,
                   invoked, purged, response, gateway, calls, avro_message, serialization,
                   framing, generation>>

\* the body has arrived: the task runs from routing.py:655 to the lock at
\* 643, or to its handshake when it has no eviction to make
Check(t) ==
    /\ tasks[t].pc = "body"
    /\ \E checked \in {check_and_insert(cache, avro_routes, tasks[t].request)} :
          /\ cache' = checked.cache
          /\ tasks' = [tasks EXCEPT ![t] =
                          [@ EXCEPT !.pc = IF checked.over THEN "lock" ELSE "settled",
                                    !.hit = checked.hit,
                                    !.match = task_match(server_protocol, tasks[t].request,
                                                         checked)]]
    /\ UNCHANGED <<routes, avro_routes, server_protocol, request, avro_handshake,
                   invoked, purged, response, gateway, calls, avro_message, serialization,
                   framing, generation>>

\* the task holds the lock: it deletes the keys of routing.py:645-648 and
\* releases the lock
Evict(t) ==
    /\ tasks[t].pc = "lock"
    /\ \E doomed \in {doomed_keys(cache)} :
          /\ cache' = SelectSeq(cache, LAMBDA e : e.key \notin doomed)
          /\ tasks' = [tasks EXCEPT ![t] = [@ EXCEPT !.pc = "settled", !.evicted = doomed]]
    /\ UNCHANGED <<routes, avro_routes, server_protocol, request, avro_handshake,
                   invoked, purged, response, gateway, calls, avro_message, serialization,
                   framing, generation>>

ConcurrentNext == \E t \in 1..MaxTasks : Arrive(t) \/ Check(t) \/ Evict(t)

ConcurrentSpec == ConcurrentInit /\ [][ConcurrentNext]_vars

----------------------------------------------------------------------------
(* Properties of requests handled at once *)

Started == {t \in 1..MaxTasks : tasks # <<>> /\ tasks[t].pc # "idle"}

Settled == {t \in Started : tasks[t].pc = "settled"}

\* every request that has arrived presents the clientHash and the
\* clientProtocol of the first one, and the hash was not cached when the
\* first of them looked it up
SameUncached ==
    /\ Started # {}
    /\ \A t \in Started :
          /\ tasks[t].request.clientHash = tasks[1].request.clientHash
          /\ tasks[t].request.clientProtocol = tasks[1].request.clientProtocol
          /\ tasks[t].request.clientProtocol # <<>>
    /\ \E t \in Started : tasks[t].pc # "body" /\ ~tasks[t].hit

\* the handshake match a request is answered when no other request runs and
\* its clientHash is not cached
Alone(req) ==
    task_match(server_protocol, req, check_and_insert(<<>>, avro_routes, req))

\* the entries the cache holds for a clientHash
EntriesOf(hash) == {i \in 1..Len(cache) : cache[i].key = hash}

\* C26 (as claimed): requests handled at once with the same uncached
\* clientHash and the same clientProtocol are each answered as when run
\* alone, and once all of them have finished the cache holds exactly one
\* entry for the clientHash
C26_OneEntryForSameHash ==
    SameUncached =>
        /\ \A t \in Settled : tasks[t].match = Alone(tasks[t].request)
        /\ Settled = Started => Cardinality(EntriesOf(tasks[1].request.clientHash)) = 1

\* C26: requests handled at once with the same uncached clientHash and the
\* same clientProtocol are each answered as when run alone; once all of them
\* have finished the cache holds exactly one entry for the clientHash when
\* the protocol passes the check, and none when the answer is NONE
C26_OneEntryWhenCompatible ==
    SameUncached =>
        /\ \A t \in Settled : tasks[t].match = Alone(tasks[t].request)
        /\ Settled = Started =>
              Cardinality(EntriesOf(tasks[1].request.clientHash))
                 = IF Alone(tasks[1].request) = "NONE" THEN 0 ELSE 1

\* three requests with the same uncached clientHash have finished: the first
\* to look the hash up inserted it into a full cache and evicted, the others
\* found its entry
C26_Witness ==
    /\ SameUncached
    /\ Cardinality(Started) = MaxTasks
    /\ Settled = Started
    /\ \E t \in Settled : tasks[t].evicted # {}
    /\ \E t \in Settled : tasks[t].hit
    /\ Cardinality(EntriesOf(tasks[1].request.clientHash)) = 1

\* C27 (as claimed): an eviction never deletes the entry that the evicting
\* request has just inserted, and never leaves the cache empty
C27_EvictionKeepsOwnEntry ==
    /\ \A t \in Settled : tasks[t].request.clientHash \notin tasks[t].evicted
    /\ (\E t \in Settled : tasks[t].evicted # {}) => cache # <<>>

----------------------------------------------------------------------------
(* Properties of the server protocol state *)

Range(list) == {list[i] : i \in 1..Len(list)}

\* the error models declared by the registered routes
DeclaredErrors == UNION {Range(routes[i].responses) : i \in 1..Len(routes)}

\* C29 (as claimed): the union of the router's errors writer holds Error,
\* ValidationError and every error model declared by a registered route,
\* and every message of the server protocol lists Error and ValidationError
\* among its errors
C29_ErrorsUnionCoversDeclared ==
    /\ {Error_name, ValidationError_name} \cup DeclaredErrors
          \subseteq Range(server_protocol.errors)
    /\ \A m \in ServerMessages : {Error_name, ValidationError_name} \subseteq Range(m.errors)

\* C30: the table of registered routes and the server protocol state
\* (text, hash, errors writer) change only in a step that registers a
\* route, which no request is part of; every step that handles a request or
\* finishes one leaves them as they are
C30_ProtocolChangedByRegistrationOnly ==
    [][/\ <<routes, avro_routes, server_protocol>>' # <<routes, avro_routes, server_protocol>>
          => /\ request = NoRequest
             /\ request' = NoRequest
             /\ Len(routes') = Len(routes) + 1
       /\ request' # request => UNCHANGED <<routes, avro_routes, server_protocol>>]_vars

\* a request was handled by a router with two routes: it stored an entry in
\* the cache and ran an endpoint
C30_Witness ==
    /\ Len(routes) = MaxRoutes
    /\ request # NoRequest
    /\ request.body = "frames"
    /\ request.clientHash \in CacheKeys(cache)
    /\ invoked # 0
    /\ server_protocol.hash = md5(server_protocol.json)
    /\ server_protocol # AvroRouter_init

----------------------------------------------------------------------------
(* Properties of the header short circuit *)

\* the response to the request req had it come without the three headers
WithoutHeaders(c, table, sp, req) ==
    AvroRouter_call(c, table, sp, [req EXCEPT !.shortcut = FALSE]).response

\* C31 (as claimed): an avro/binary response to a request that reached a
\* handshake result leaves the handshake frame out only when the match is
\* BOTH and the request carries the three headers; without the headers the
\* response begins with the handshake frame, and its status and call
\* response are those of the response with the headers
C31_ShortCircuitKeepsResponse ==
    [][(Handled /\ request'.body = "frames" /\ request'.accept /\ avro_handshake'.match # "")
       => /\ response'.handshake = NoHandshake
             => request'.shortcut /\ avro_handshake'.match = "BOTH"
          /\ \E other \in {WithoutHeaders(cache, avro_routes, server_protocol, request')} :
                /\ other.handshake = avro_handshake'
                /\ other.status = response'.status
                /\ other.call = response'.call]_vars

----------------------------------------------------------------------------
(* Properties of the dispatch of a call *)

\* the ids of the messages a client protocol declares
Declared(messages) == {messages[i].id : i \in 1..Len(messages)}

\* C32 (as claimed): the endpoint run for an avro call is one whose message
\* the client protocol of the request's clientHash declares; here the entry
\* of the clientHash is computed by this request from the protocol it
\* supplies
C32_DispatchedMessageIsDeclared ==
    [][(/\ Handled
        /\ request'.body = "frames"
        /\ request'.clientProtocol # <<>>
        /\ request'.clientHash = md5(request'.clientProtocol)
        /\ request'.clientHash \notin CacheKeys(cache)
        /\ invoked' # 0)
       => invoked' \in Declared(Supplied(request'))]_vars

\* C33: the endpoint run for an avro/binary request is the route registered
\* under the message of its CallRequest, and the whole outcome of the
\* request (cache, handshake, endpoint, response) is the one of the same
\* request sent to any other path and method
C33_DispatchByMessageOnly ==
    [][(Handled /\ request'.body # "json")
       => /\ invoked' # 0
             => /\ request'.call.present
                /\ invoked' = request'.call.message
                /\ invoked' \in DOMAIN avro_routes
          /\ \A u \in {0} \cup MessageIds :
                AvroRouter_call(cache, avro_routes, server_protocol,
                                [request' EXCEPT !.path = u])
                   = [cache |-> cache', purged |-> purged',
                      avro_handshake |-> avro_handshake', invoked |-> invoked',
                      response |-> response']]_vars

\* a call of one message was sent to the path of another registered route
\* and ran the endpoint of the message
C33_Witness ==
    /\ request # NoRequest
    /\ request.body = "frames"
    /\ request.call.present
    /\ request.path \in DOMAIN avro_routes
    /\ request.path # request.call.message
    /\ invoked = request.call.message
    /\ response.call.present
    /\ ~response.call.error

----------------------------------------------------------------------------
(* Properties of the gateway's response reader *)

\* the first match of ms that is not NONE ("" when there is none)
RECURSIVE FirstMatch(_)
FirstMatch(ms) ==
    IF ms = <<>> THEN ""
    ELSE IF ms[1] \in {"", "NONE"} THEN FirstMatch(Tail(ms)) ELSE ms[1]

\* C34: a gateway with a response model that holds a server hash other than
\* the sentinel holds a response reader; the first match other than NONE
\* that a gateway with the sentinel hash reads is CLIENT; and no call ends
\* with the TypeError of calling the unset reader
C34_ReaderSetBeforeDecoding ==
    /\ (gateway.response_model # 0 /\ gateway.server_hash # SentinelHash)
          => gateway.deserializer # NoDeserializer
    /\ \A i \in 1..Len(calls) :
          /\ calls[i].outcome # "TypeError"
          /\ calls[i].before.server_hash = SentinelHash
                => FirstMatch(calls[i].matches) \in {"", "CLIENT"}
          /\ (calls[i].outcome = "returned" /\ calls[i].before.response_model # 0)
                => \/ calls[i].before.deserializer # NoDeserializer
                   \/ "CLIENT" \in {calls[i].matches[k] : k \in 1..Len(calls[i].matches)}

\* a fresh gateway with a response model, without reader, was answered
\* CLIENT on its first call and decoded the response; its next call was
\* answered BOTH and decoded the response with the reader built by the first
C34_Witness ==
    /\ Len(calls) >= 2
    /\ calls[1].before.response_model # 0
    /\ calls[1].before.server_hash = SentinelHash
    /\ calls[1].before.deserializer = NoDeserializer
    /\ calls[1].match = "CLIENT"
    /\ calls[1].outcome = "returned"
    /\ calls[2].before.deserializer # NoDeserializer
    /\ calls[2].match = "BOTH"
    /\ calls[2].outcome = "returned"

----------------------------------------------------------------------------
(* avro_frame and read_avro_frames taken alone.  Bytes are numbers 0..255,
   a bytes object is a sequence of them. *)

\* payloads framed into one message, and the length of a payload
MaxPayloads == 2
MaxPayloadLen == 2

\* the variables of the router and of the gateway
router == <<routes, avro_routes, server_protocol, cache, request, avro_handshake, invoked,
            purged, response, gateway, calls>>

\* a router just constructed that has served nothing, and no gateway
RouterIdle ==
    /\ routes = <<>>
    /\ avro_routes = <<>>
    /\ server_protocol = AvroRouter_init
    /\ cache = <<>>
    /\ request = NoRequest
    /\ avro_handshake = NoHandshake
    /\ invoked = 0
    /\ purged = {}
    /\ response = NoResponse
    /\ gateway = NoGateway
    /\ calls = <<>>

\* n.to_bytes(4, 'big')
to_bytes(n) == <<(n \div 16777216) % 256, (n \div 65536) % 256, (n \div 256) % 256, n % 256>>

\* int.from_bytes(b, 'big')
RECURSIVE from_bytes(_)
from_bytes(b) ==
    IF b = <<>> THEN 0 ELSE from_bytes(SubSeq(b, 1, Len(b) - 1)) * 256 + b[Len(b)]

\* Python's b[i:j] for 0 <= i <= j
Slice(b, i, j) == SubSeq(b, i + 1, IF j > Len(b) THEN Len(b) ELSE j)

\* serialization.py:32-36
avro_frame(bytes_to_frame) ==
    IF bytes_to_frame # <<>>
    THEN to_bytes(Len(bytes_to_frame)) \o bytes_to_frame
    ELSE <<0, 0, 0, 0>>

\* serialization.py:39-43: the frames the generator yields, in order
RECURSIVE read_avro_frames(_)
read_avro_frames(avro_bytes) ==
    IF avro_bytes = <<>> THEN <<>>
    ELSE LET frame_len == from_bytes(Slice(avro_bytes, 0, 4)) + 4
         IN <<Slice(avro_bytes, 4, frame_len)>>
            \o read_avro_frames(Slice(avro_bytes, frame_len, Len(avro_bytes)))

\* the payloads of the model
Payloads == UNION {[1..n -> {0, 1, 7}] : n \in 1..MaxPayloadLen}

\* what a body holds after the frames of a message: nothing, another frame,
\* or bytes that are no whole frame
Rests == {<<>>, avro_frame(<<7>>), <<0, 0>>}

RECURSIVE Framed(_)
Framed(payloads) ==
    IF payloads = <<>> THEN <<>> ELSE avro_frame(Head(payloads)) \o Framed(Tail(payloads))

FramingInit ==
    /\ RouterIdle
    /\ avro_message = NoMessage
    /\ serialization = NoSerialization
    /\ tasks = <<>>
    /\ generation = NoGeneration
    /\ \E n \in 0..MaxPayloads : \E payloads \in [1..n -> Payloads] : \E rest \in Rests :
          framing = [NoFraming EXCEPT !.payloads = payloads, !.rest = rest,
                                      !.phase = "payloads"]

\* avro_frame(p1) + ... + avro_frame(pn) + avro_frame(), and what follows
\* in the body
Frame ==
    /\ framing.phase = "payloads"
    /\ framing' = [framing EXCEPT
                      !.bytes = Framed(framing.payloads) \o avro_frame(<<>>) \o framing.rest,
                      !.phase = "framed"]
    /\ UNCHANGED <<router, avro_message, serialization, tasks, generation>>

\* list(read_avro_frames(body))
ReadFrames ==
    /\ framing.phase = "framed"
    /\ framing' = [framing EXCEPT !.frames = read_avro_frames(framing.bytes),
                                  !.phase = "read"]
    /\ UNCHANGED <<router, avro_message, serialization, tasks, generation>>

FramingNext == Frame \/ ReadFrames

FramingSpec == FramingInit /\ [][FramingNext]_vars

\* C35 (as claimed): the frames read from the frames of p1..pn followed by
\* the empty frame are p1..pn and one empty frame, and nothing that follows
\* the empty frame is read
C35_FramingRoundTrip ==
    framing.phase = "read" => framing.frames = framing.payloads \o << <<>> >>

(* C36 (as claimed): for every enum datum the writer accepts, the integer
   written is the zero-based position of the datum's symbol in the symbols
   of the writer's schema, hence within 0..len(symbols)-1.  Field A of the
   model is the enum field; its integer is the first one written. *)
C36_EnumWrittenAsPosition ==
    (/\ serialization.phase \in {"serialized", "deserialized"}
     /\ convert_schema(serialization.model[1]).type = "enum")
       => LET symbols == convert_schema(serialization.model[1]).symbols
              datum == serialization.x[1]
              symbol == IF datum.t \in IntEnums THEN IntEnumNames(datum.t)[datum.v[1]]
                        ELSE EnumValues[datum.v[1]]
              written == unzigzag(serialization.bytes[1])
          IN /\ written = Index(symbols, symbol) - 1
             /\ written \in 0..(Len(symbols) - 1)

----------------------------------------------------------------------------
(* AvroSchemaGenerator taken alone.  A schema is the sequence of its nodes in
   the order the generator reaches them; the calls of _get_type that are
   waiting for their turn are the stack. *)

\* fields of a model, calls of schema() on one generator, and calls of
\* _get_type that wait at one time
MaxFields == 2
MaxGenerations == 2
MaxDepth == 12

\* A python type used as an annotation: what it is (k), its __name__ (for a
\* string or a ForwardRef: the name referred to), its __namespace__ as the
\* sequence of its parts (<<>>: none), its __args__ or the annotations of its
\* fields, the parameters of a constrained type, and whether the length of a
\* constrained bytes is fixed (min_length = max_length)
Annotation(k, type_name, namespace, args, size, fixed) ==
    [k |-> k, name |-> type_name, namespace |-> namespace, args |-> args, size |-> size,
     fixed |-> fixed]
Builtin(type_name) == Annotation(type_name, type_name, <<>>, <<>>, "", FALSE)
NoAnnotation == Builtin("")
ForwardRef(type_name) == Annotation("ForwardRef", type_name, <<>>, <<>>, "", FALSE)
Union(args) == Annotation("Union", "Union", <<>>, args, "", FALSE)
Optional(T) == Union(<<T, Builtin("NoneType")>>)
List(T) == Annotation("list", "List", <<>>, <<T>>, "", FALSE)
Dict(K, V) == Annotation("dict", "Dict", <<>>, <<K, V>>, "", FALSE)
BaseModel(type_name, namespace, fields) ==
    Annotation("BaseModel", type_name, namespace, fields, "", FALSE)

\* the classes of the model.  Two classes are called Item, one in namespace
\* Model.a and one in Model.b; Peer refers to the class Model, which is
\* defined after it and refers to it
Color == Annotation("Enum", "Color", <<>>, <<>>, "", FALSE)
MD5 == Annotation("ConstrainedBytes", "MD5", <<>>, <<>>, "16", TRUE)
ItemA == BaseModel("Item", <<"Model", "a">>, <<Builtin("int")>>)
ItemB == BaseModel("Item", <<"Model", "b">>, <<Builtin("str")>>)
Leaf == BaseModel("Leaf", <<>>, <<Color>>)
Peer == BaseModel("Peer", <<>>, <<Optional(ForwardRef("Model"))>>)

\* the annotations of the fields of the class Model
FieldTypes ==
    {Builtin("int"), Builtin("str"), Builtin("datetime"),
     Optional(Builtin("int")), List(Builtin("int")), Dict(Builtin("str"), Builtin("int")),
     \* condecimal(max_digits=5, decimal_places=3), conbytes(max_length=10)
     Annotation("ConstrainedDecimal", "ConstrainedDecimalValue", <<>>, <<>>, "5_3", FALSE),
     Annotation("ConstrainedBytes", "ConstrainedBytesValue", <<>>, <<>>, "10", FALSE),
     Color, MD5, ItemA, ItemB, Leaf, Peer,
     \* Optional['Model'], and 'Other', a class that is defined later
     Optional(ForwardRef("Model")), Annotation("annotation", "Other", <<>>, <<>>, "", FALSE)}

\* the types a schema is generated for
GeneratedModels ==
    {BaseModel("Model", <<>>, fields) : fields \in [1..MaxFields -> FieldTypes]}
       \cup {Peer, Color}

\* get_name (schema.py:47-76)
RECURSIVE schema_get_name(_)
RECURSIVE join_names(_)
join_names(args) ==
    IF Len(args) = 0 THEN ""
    ELSE IF Len(args) = 1 THEN schema_get_name(args[1])
    ELSE schema_get_name(Head(args)) \o "_" \o join_names(Tail(args))
schema_get_name(model) ==
    CASE model.k \in {"annotation", "ForwardRef"} -> model.name
      \* str(origin) without "typing."
      [] model.k = "Union" -> "Union_" \o join_names(model.args)
      [] model.k = "list" -> "<class 'list'>_" \o join_names(model.args)
      [] model.k = "dict" -> "<class 'dict'>_" \o join_names(model.args)
      [] model.k = "ConstrainedBytes" /\ model.name = "ConstrainedBytesValue" ->
            "Bytes_" \o model.size
      [] model.k = "ConstrainedDecimal" /\ model.name = "ConstrainedDecimalValue" ->
            "Decimal_" \o model.size
      [] OTHER -> model.name

\* schema.py:79-91: whether _validate_avro_namespace accepts the namespace
\* under the enclosing one; the names of the model all match the name format
validate_avro_namespace(namespace, parent_namespace) ==
    \/ parent_namespace = <<>>
    \/ namespace = parent_namespace
    \/ /\ Len(parent_namespace) < Len(namespace)
       /\ SubSeq(namespace, 1, Len(parent_namespace)) = parent_namespace

\* a node of a schema: a bare string, or what a dict or a list starts with
Node(t, type_name, namespace) == [t |-> t, name |-> type_name, namespace |-> namespace]
String(type_name) == Node("string", type_name, <<>>)
NoNode == Node("", "", <<>>)

\* a call that waits: _get_type(annotation), or the end of the conversion of
\* the record or union `annotation`, which restores self.namespace
Call(annotation) == [op |-> "_get_type", annotation |-> annotation, namespace |-> <<>>]
End(annotation, namespace) == [op |-> "end", annotation |-> annotation, namespace |-> namespace]
RECURSIVE Calls(_)
Calls(annotations) ==
    IF annotations = <<>> THEN <<>>
    ELSE <<Call(Head(annotations))>> \o Calls(Tail(annotations))

\* what a call of _get_type does before the calls it makes itself: the
\* exception it raises, the node it returns, self.refs, self.namespace and
\* the calls it makes
Raises(g, exception) ==
    [raised |-> exception, node |-> NoNode, refs |-> g.refs, namespace |-> g.namespace,
     calls |-> <<>>]
Returns(g, node, refs, namespace, made) ==
    [raised |-> "", node |-> node, refs |-> refs, namespace |-> namespace, calls |-> made]

\* schema.py:152-160: the annotation of a field as _convert_object passes it
\* on; a union of a type and None with default None gets None first
field_type(submodel) ==
    IF submodel.k = "Union" /\ Len(submodel.args) = 2
       /\ \E i \in 1..2 : submodel.args[i] = Builtin("NoneType")
    THEN LET type_index == IF submodel.args[1] = Builtin("NoneType") THEN 2 ELSE 1
         IN Union(<<Builtin("NoneType"), submodel.args[type_index]>>)
    ELSE submodel
RECURSIVE field_types(_)
field_types(fields) ==
    IF fields = <<>> THEN <<>> ELSE <<field_type(Head(fields))>> \o field_types(Tail(fields))

\* AvroSchemaGenerator._conversions_ (schema.py:279-320): the types with a
\* conversion function, and the schemas of the others
Callable ==
    {"BaseModel", "list", "Enum", "IntEnum", "ConstrainedBytes", "dict", "ConstrainedDecimal",
     "Union"}
Conversions(k) ==
    CASE k = "bool" -> String("boolean")
      [] k = "AvroInt" -> String("int")
      [] k = "int" -> String("long")
      [] k = "AvroFloat" -> String("float")
      [] k = "float" -> String("double")
      [] k = "bytes" -> String("bytes")
      [] k = "NoneType" -> String("null")
      [] k = "str" -> String("string")
      [] k = "datetime" -> Node("logical", "timestamp-micros", <<>>)
      [] k = "date" -> Node("logical", "date", <<>>)
      [] k = "time" -> Node("logical", "time-micros", <<>>)
      [] k = "UUID" -> Node("logical", "uuid", <<>>)
      [] OTHER -> NoNode

\* schema.py:340-372: the conversion of a type whose name is not in
\* self.refs.  The name of a typing.Union, and of no other type of the model,
\* starts with "union"
conversion(g, model, type_name) ==
    IF model.k \notin Callable
    THEN IF Conversions(model.k) = NoNode THEN Raises(g, "NotImplementedError")
         ELSE Returns(g, Conversions(model.k), g.refs, g.namespace, <<>>)
    ELSE LET refs == IF model.k = "Union" THEN g.refs ELSE g.refs \cup {type_name}
             accepted == \/ model.namespace = <<>>
                         \/ validate_avro_namespace(model.namespace, g.namespace)
         IN CASE model.k = "BaseModel" ->
                   \* _convert_object (schema.py:143-187)
                   IF ~accepted THEN Raises([g EXCEPT !.refs = refs], "AvroException")
                   ELSE Returns(g, Node("record", type_name, model.namespace), refs,
                                IF model.namespace # <<>> THEN model.namespace
                                ELSE g.namespace,
                                Calls(field_types(model.args)) \o <<End(model, g.namespace)>>)
              [] model.k \in {"Enum", "IntEnum"} ->
                   IF ~accepted THEN Raises([g EXCEPT !.refs = refs], "AvroException")
                   ELSE Returns(g, Node("enum", type_name, model.namespace), refs, g.namespace, <<>>)
              [] model.k = "ConstrainedBytes" ->
                   IF ~model.fixed THEN Returns(g, String("bytes"), refs, g.namespace, <<>>)
                   ELSE IF ~accepted THEN Raises([g EXCEPT !.refs = refs], "AvroException")
                   ELSE Returns(g, Node("fixed", type_name, model.namespace), refs, g.namespace, <<>>)
              [] model.k = "list" ->
                   Returns(g, Node("array", "", <<>>), refs, g.namespace,
                           <<Call(model.args[1])>>)
              [] model.k = "dict" ->
                   IF model.args[1] # Builtin("str")
                   THEN Raises([g EXCEPT !.refs = refs], "AvroException")
                   ELSE Returns(g, Node("map", "", <<>>), refs, g.namespace,
                                <<Call(model.args[2])>>)
              [] model.k = "ConstrainedDecimal" ->
                   Returns(g, Node("decimal", model.size, <<>>), refs, g.namespace, <<>>)
              [] OTHER ->
                   \* _convert_union
                   Returns(g, Node("union", "", <<>>), refs, g.namespace,
                           Calls(model.args) \o <<End(model, g.namespace)>>)

\* _get_type expanding the class a forward reference names, in self.refs or
\* not
get_type_expands_again(g, model) ==
    IF model.k \in {"annotation", "ForwardRef"}
    THEN IF model.name = g.name THEN conversion(g, g.model, g.name)
         ELSE Raises(g, "AvroException")
    ELSE conversion(g, model, schema_get_name(model))

\* AvroSchemaGenerator._get_type (schema.py:322-372)
get_type(g, model) ==
    IF model.k \in {"annotation", "ForwardRef"}
    THEN IF model.name \in g.refs THEN Returns(g, String(model.name), g.refs, g.namespace, <<>>)
         ELSE Raises(g, "AvroException")
    ELSE IF schema_get_name(model) \in g.refs
    THEN Returns(g, String(schema_get_name(model)), g.refs, g.namespace, <<>>)
    ELSE conversion(g, model, schema_get_name(model))

\* the names of the records and unions that are being converted
RECURSIVE Open(_)
Open(stack) ==
    IF stack = <<>> THEN {}
    ELSE (IF Head(stack).op = "end" THEN {schema_get_name(Head(stack).annotation)} ELSE {})
            \cup Open(Tail(stack))

\* AvroSchemaGenerator(model) (schema.py:96-111)
GenerationInit ==
    /\ RouterIdle
    /\ avro_message = NoMessage
    /\ serialization = NoSerialization
    /\ tasks = <<>>
    /\ framing = NoFraming
    /\ \E model \in GeneratedModels :
          generation = [NoGeneration EXCEPT
                           !.model = model,
                           !.name = schema_get_name(model),
                           !.namespace = IF model.namespace # <<>> THEN model.namespace
                                         ELSE <<schema_get_name(model)>>,
                           !.phase = "constructed"]

\* schema(), its first two lines (schema.py:113-115)
schema ==
    /\ generation.phase \in {"constructed", "generated", "raised"}
    /\ Len(generation.results) < MaxGenerations
    /\ generation' = [generation EXCEPT !.refs = {},
                                        !.stack = <<Call(generation.model)>>,
                                        !.schema = <<>>,
                                        !.visits = <<>>,
                                        !.phase = "generating"]
    /\ UNCHANGED <<router, avro_message, serialization, tasks, framing>>

\* the next call of _get_type
GetType ==
    /\ generation.phase = "generating"
    /\ generation.stack # <<>>
    /\ Head(generation.stack).op = "_get_type"
    /\ Len(generation.stack) <= MaxDepth
    /\ \E r \in {get_type(generation, Head(generation.stack).annotation)} :
          LET visit == [annotation |-> Head(generation.stack).annotation,
                        open |-> Open(generation.stack),
                        node |-> r.node]
          IN generation' =
                IF r.raised # ""
                THEN [generation EXCEPT
                         !.refs = r.refs,
                         !.stack = <<>>,
                         !.schema = <<>>,
                         !.visits = Append(@, visit),
                         !.results = Append(@, [raised |-> r.raised, schema |-> <<>>]),
                         !.phase = "raised"]
                ELSE [generation EXCEPT
                         !.refs = r.refs,
                         !.namespace = r.namespace,
                         !.stack = r.calls \o Tail(@),
                         !.schema = Append(@, r.node),
                         !.visits = Append(@, visit)]
    /\ UNCHANGED <<router, avro_message, serialization, tasks, framing>>

\* the end of _convert_object (schema.py:181-187) or of _convert_union
Converted ==
    /\ generation.phase = "generating"
    /\ generation.stack # <<>>
    /\ Head(generation.stack).op = "end"
    /\ generation' = [generation EXCEPT
                         !.namespace = Head(generation.stack).namespace,
                         !.stack = Tail(@),
                         !.schema = Append(@, Node("end", "", <<>>))]
    /\ UNCHANGED <<router, avro_message, serialization, tasks, framing>>

\* schema(), from its third line (schema.py:117-124): the namespace and the
\* name of the generator are put on a dict; no model is an error
Generated ==
    /\ generation.phase = "generating"
    /\ generation.stack = <<>>
    /\ LET first == generation.schema[1]
           result == IF first.t = "string" THEN generation.schema
                     ELSE [generation.schema EXCEPT
                              ![1] = Node(first.t, generation.name, generation.namespace)]
       IN generation' = [generation EXCEPT
                            !.schema = result,
                            !.results = Append(@, [raised |-> "", schema |-> result]),
                            !.phase = "generated"]
    /\ UNCHANGED <<router, avro_message, serialization, tasks, framing>>

GenerationNext == schema \/ GetType \/ Converted \/ Generated

GenerationSpec == GenerationInit /\ [][GenerationNext]_vars

\* every call of schema() is run to its end
GenerationFairSpec == GenerationSpec /\ WF_vars(GenerationNext)

\* the types whose schema has a name: records, enums and fixed
Named(annotation) ==
    \/ annotation.k \in {"BaseModel", "Enum", "IntEnum"}
    \/ annotation.k = "ConstrainedBytes" /\ annotation.fixed

\* the types whose schema has no name: arrays, maps, unions, decimals and
\* the other logical types
Unnamed(annotation) ==
    annotation.k \in {"list", "dict", "Union", "ConstrainedDecimal", "datetime", "date",
                      "time", "UUID"}

FullDefinitions == {"record", "enum", "fixed"}

AvroPrimitives == {"null", "boolean", "int", "long", "float", "double", "bytes", "string"}

(* C37 (as claimed): in one generation every named type is returned as a
   full definition where the traversal first reaches it and as the bare
   string of its unqualified name wherever it is reached later, and a second
   call of schema() on the same generator returns what the first returned. *)
C37_FullOnceThenReference ==
    /\ generation.phase = "generated" =>
          \A i \in 1..Len(generation.visits) :
             LET visit == generation.visits[i]
                 later == \E j \in 1..(i - 1) :
                             generation.visits[j].annotation = visit.annotation
             IN Named(visit.annotation) =>
                   IF later THEN visit.node = String(visit.annotation.name)
                   ELSE /\ visit.node.t \in FullDefinitions
                        /\ visit.node.name = visit.annotation.name
    /\ Len(generation.results) = 2 => generation.results[1] = generation.results[2]

(* C38 (as claimed): every bare string of a generated schema is an Avro
   primitive or the name of a record, enum or fixed that the schema defines
   before it, and an unnamed type is returned in full wherever it is reached,
   the second field of the same unnamed type included. *)
C38_BareStringsAreDefined ==
    generation.phase = "generated" =>
       /\ \A i \in 1..Len(generation.schema) :
             generation.schema[i].t = "string" =>
                \/ generation.schema[i].name \in AvroPrimitives
                \/ \E j \in 1..(i - 1) :
                      /\ generation.schema[j].t \in FullDefinitions
                      /\ generation.schema[j].name = generation.schema[i].name
       /\ \A i \in 1..Len(generation.visits) :
             Unnamed(generation.visits[i].annotation) =>
                generation.visits[i].node.t \notin {"string", ""}

(* C39 (as claimed): two named types of one unqualified name in different
   namespaces are told apart: each is returned as a full definition where the
   traversal first reaches it. *)
C39_NamespaceQualifiedNames ==
    generation.phase = "generated" =>
       \A i, j \in 1..Len(generation.visits) :
          LET a == generation.visits[i].annotation
              b == generation.visits[j].annotation
          IN (/\ i < j
              /\ Named(a) /\ Named(b)
              /\ a.name = b.name
              /\ a.namespace # b.namespace
              /\ \A h \in 1..(j - 1) : generation.visits[h].annotation # b)
                => /\ generation.visits[j].node.t \in FullDefinitions
                   /\ generation.visits[j].node.namespace = b.namespace

(* C40: every call of schema() comes to an end, for the record that refers
   to itself and for the records that refer to each other as for any other,
   and a type reached while it is being converted is returned as the bare
   string of its name and is not converted again. *)
C40_GenerationTerminates ==
    /\ [](generation.phase = "generating"
             => <>(generation.phase \in {"generated", "raised"}))
    /\ [](\A i \in 1..Len(generation.visits) :
             LET visit == generation.visits[i]
             IN schema_get_name(visit.annotation) \in visit.open
                   => visit.node = String(schema_get_name(visit.annotation)))

\* a schema was generated for the class Model that holds Peer, and in Peer
\* the reference to Model was reached while both were being converted
C40_Witness ==
    /\ generation.phase = "generated"
    /\ \E i \in 1..Len(generation.visits) :
          /\ generation.visits[i].annotation = ForwardRef("Model")
          /\ {"Model", "Peer"} \subseteq generation.visits[i].open
          /\ generation.visits[i].node = String("Model")

====
